---- MODULE Spec2Model ----
(***************************************************************************)
(* A model of the President card game engine: cards and deck (card.py),    *)
(* player hands and play enumeration (player.py), plays and the trick      *)
(* state machine (trick.py) and the round/game orchestrator (game.py).     *)
(*                                                                         *)
(* Python lists are sequences, None is a sentinel of the right shape       *)
(* (NoPlay for a Play, NoPlayer for a Player, "None" for a rank label),    *)
(* a raised exception is recorded in the result of the operation.          *)
(***************************************************************************)
EXTENDS Integers, Sequences, FiniteSets, TLC

(***************************************************************************)
(* Bounds of the model.                                                    *)
(***************************************************************************)
\* rosters have MIN_PLAYERS..MaxPlayers players
MaxPlayers == 4
\* games have 1..MaxRounds rounds
MaxRounds == 2
\* random.shuffle draws one of the permutations Shuffle(cards, 0..NumShuffles-1)
NumShuffles == 3
\* the caller of the Trick interface adds plays while the log is shorter
MaxLog == 2
\* the hands of the Player interface hold at most MaxHand cards
MaxHand == 4
\* Game.calculate_scores is applied while the scores sum to less than this
MaxScore == 4
\* positions of the hand shown at the exchange prompt that may be chosen
MaxChoice == 3
\* the hands of the hand operations of Player hold at most MaxHeld cards
MaxHeld == 3
\* remove_cards is asked to remove at most MaxRemove cards
MaxRemove == 2

(***************************************************************************)
(* Program constants.                                                      *)
(***************************************************************************)
MIN_PLAYERS == 3
MAX_PLAYERS == 8
max_iterations == 100
THREE == 0
TWO == 12

NoPlayer == 0

(***************************************************************************)
(* card.py: Suit, Rank, Card, Deck                                         *)
(***************************************************************************)
\* Suit, in declaration (iteration) order
Suit == <<"CLUBS", "DIAMONDS", "HEARTS", "SPADES">>

\* Rank, in declaration order; a rank is modelled by its value (0..12)
Rank == <<0, 1, 2, 3, 4, 5, 6, 7, 8, 9, 10, 11, 12>>

Card(suit, rank) == [suit |-> suit, rank |-> rank]

get_value(card) == card.rank

is_three_of_spades(card) == card.suit = "SPADES" /\ card.rank = THREE

\* Deck.__init__: for suit in Suit: for rank in Rank: append Card(suit, rank)
Deck_init ==
  [i \in 1..(Len(Suit) * Len(Rank)) |->
     Card(Suit[((i - 1) \div Len(Rank)) + 1], Rank[((i - 1) % Len(Rank)) + 1])]

\* the multipliers of the modelled permutations: the units modulo 52
ShuffleUnits ==
  <<1, 3, 5, 7, 9, 11, 15, 17, 19, 21, 23, 25,
    27, 29, 31, 33, 35, 37, 41, 43, 45, 47, 49, 51>>

\* Deck.shuffle: random.shuffle permutes the list; the model draws the
\* permutation from a family indexed by s: position i (0-based) receives the
\* card at position (a*i + 5*s) mod len, a the s-th unit modulo 52.
Shuffle(cards, s) ==
  LET a == ShuffleUnits[(s % Len(ShuffleUnits)) + 1]
      n == Len(cards)
  IN  [i \in 1..n |-> cards[((a * (i - 1) + 5 * s) % n) + 1]]

RECURSIVE DealLoop_from_second(_, _, _, _)
\* the loop of Deck.deal starting its rotation at the second hand
DealLoop_from_second(cards, i, num_players, hands) ==
  IF i >= Len(cards) THEN hands
  ELSE LET player_index == ((i + 1) % num_players) + 1
       IN  DealLoop_from_second(cards, i + 1, num_players,
                    [hands EXCEPT ![player_index] = Append(@, cards[i + 1])])

RECURSIVE DealLoop(_, _, _, _)
\* the loop of Deck.deal: card at position i (0-based) is appended to
\* hands[i % num_players]
DealLoop(cards, i, num_players, hands) ==
  IF i >= Len(cards) THEN hands
  ELSE LET player_index == (i % num_players) + 1
       IN  DealLoop(cards, i + 1, num_players,
                    [hands EXCEPT ![player_index] = Append(@, cards[i + 1])])

\* Deck.deal: [raised, hands]
Deck_deal(cards, num_players) ==
  IF ~(MIN_PLAYERS <= num_players /\ num_players <= MAX_PLAYERS)
  THEN [raised |-> TRUE, hands |-> <<>>]
  ELSE [raised |-> FALSE,
        hands |-> DealLoop(cards, 0, num_players, [p \in 1..num_players |-> <<>>])]

(***************************************************************************)
(* Sequence helpers (Python list operations)                               *)
(***************************************************************************)
\* x in list
InList(x, list) == \E i \in 1..Len(list) : list[i] = x

\* the 1-based index of the first element equal to x (list.index)
IndexOf(x, list) == CHOOSE i \in 1..Len(list) :
                      list[i] = x /\ \A j \in 1..(i - 1) : list[j] # x

\* list.remove(x): removes the first element equal to x
ListRemove(list, x) ==
  LET k == IndexOf(x, list)
  IN  [i \in 1..(Len(list) - 1) |-> IF i < k THEN list[i] ELSE list[i + 1]]

\* list[a:b] for 0 <= a, b (Python slice with non-negative bounds)
Slice(list, a, b) ==
  LET hi == IF b > Len(list) THEN Len(list) ELSE b
  IN  IF a >= hi THEN <<>> ELSE [i \in 1..(hi - a) |-> list[a + i]]

(***************************************************************************)
(* player.py: Player                                                       *)
(***************************************************************************)
\* Player.add_cards: hand.extend(cards)
add_cards(h, cards) == h \o cards

\* remove_cards returning after the first card of the list
remove_cards_first_only(h, cards) ==
  IF cards = <<>> THEN [raised |-> FALSE, hand |-> h]
  ELSE IF ~InList(Head(cards), h) THEN [raised |-> TRUE, hand |-> h]
  ELSE [raised |-> FALSE, hand |-> ListRemove(h, Head(cards))]

RECURSIVE remove_cards_ignores_missing(_, _)
\* remove_cards skipping a card that is not in the hand instead of raising
remove_cards_ignores_missing(h, cards) ==
  IF cards = <<>> THEN [raised |-> FALSE, hand |-> h]
  ELSE IF ~InList(Head(cards), h) THEN remove_cards_ignores_missing(h, Tail(cards))
  ELSE remove_cards_ignores_missing(ListRemove(h, Head(cards)), Tail(cards))

\* remove_cards checking every requested card before removing any: the hand
\* is left alone when it raises
remove_cards_all_or_nothing(h, cards) ==
  IF \E i \in 1..Len(cards) :
       Cardinality({j \in 1..Len(cards) : cards[j] = cards[i]}) >
         Cardinality({j \in 1..Len(h) : h[j] = cards[i]})
  THEN [raised |-> TRUE, hand |-> h]
  ELSE remove_cards_ignores_missing(h, cards)

RECURSIVE remove_cards(_, _)
\* Player.remove_cards: for each card in turn, raise if it is not in the
\* hand, else remove its first occurrence. [raised, hand]: the hand as the
\* call leaves it, also when it raises part-way.
remove_cards(h, cards) ==
  IF cards = <<>> THEN [raised |-> FALSE, hand |-> h]
  ELSE IF ~InList(Head(cards), h) THEN [raised |-> TRUE, hand |-> h]
  ELSE remove_cards(ListRemove(h, Head(cards)), Tail(cards))

RECURSIVE StableInsert(_, _)
\* insert card into an ascending list after every element of value <= its own
StableInsert(sorted, card) ==
  IF sorted = <<>> THEN <<card>>
  ELSE IF get_value(Head(sorted)) <= get_value(card)
       THEN <<Head(sorted)>> \o StableInsert(Tail(sorted), card)
       ELSE <<card>> \o sorted

RECURSIVE StableSort(_, _)
\* list.sort(key=get_value): stable, ascending
StableSort(list, acc) ==
  IF list = <<>> THEN acc
  ELSE StableSort(Tail(list), StableInsert(acc, Head(list)))

\* sort_hand without the special case of the lone 3 of Spades
sort_hand_plain(h) == StableSort(h, <<>>)

\* sort_hand placing the 3 of Spades last whenever the hand holds it
sort_hand_spades_always_last(h) ==
  LET sorted == StableSort(h, <<>>)
      spades == Card("SPADES", THREE)
  IN  IF InList(spades, h)
      THEN Append(ListRemove(sorted, spades), spades)
      ELSE sorted

\* Player.sort_hand
sort_hand(h) ==
  LET threes == SelectSeq(h, LAMBDA c : c.rank = THREE)
      sorted == StableSort(h, <<>>)
  IN  IF Len(threes) = 1 /\ is_three_of_spades(threes[1])
      THEN Append(ListRemove(sorted, threes[1]), threes[1])
      ELSE sorted

\* has_three_of_clubs looking for the 3 of Spades
has_three_of_clubs_checks_spades(h) == InList(Card("SPADES", THREE), h)

\* Player.has_three_of_clubs
has_three_of_clubs(h) ==
  \E i \in 1..Len(h) : h[i].suit = "CLUBS" /\ h[i].rank = THREE

\* Player.is_hand_empty
is_hand_empty(h) == Len(h) = 0

RECURSIVE RankKeys(_, _)
\* the keys of rank_groups in insertion order: the ranks of the hand in order
\* of first occurrence
RankKeys(h, acc) ==
  IF h = <<>> THEN acc
  ELSE RankKeys(Tail(h),
                IF InList(Head(h).rank, acc) THEN acc ELSE Append(acc, Head(h).rank))

\* rank_groups[rank]: the cards of that rank in hand order
RankGroup(h, rank) == SelectSeq(h, LAMBDA c : c.rank = rank)

RECURSIVE AllPlaysLoop_single_per_card(_, _, _)
\* the loop emitting one single for every card of a rank
AllPlaysLoop_single_per_card(h, keys, plays_acc) ==
  IF keys = <<>> THEN plays_acc
  ELSE LET cards == RankGroup(h, Head(keys))
           p1 == plays_acc \o [i \in 1..Len(cards) |-> <<cards[i]>>]
           p2 == IF Len(cards) >= 2 THEN Append(p1, Slice(cards, 0, 2)) ELSE p1
           p3 == IF Len(cards) >= 3 THEN Append(p2, Slice(cards, 0, 3)) ELSE p2
           p4 == IF Len(cards) = 4 THEN Append(p3, cards) ELSE p3
       IN  AllPlaysLoop_single_per_card(h, Tail(keys), p4)

RECURSIVE AllPlaysLoop(_, _, _)
\* the loop of _get_all_possible_plays over rank_groups.items()
AllPlaysLoop(h, keys, plays_acc) ==
  IF keys = <<>> THEN plays_acc
  ELSE LET cards == RankGroup(h, Head(keys))
           p1 == Append(plays_acc, <<cards[1]>>)
           p2 == IF Len(cards) >= 2 THEN Append(p1, Slice(cards, 0, 2)) ELSE p1
           p3 == IF Len(cards) >= 3 THEN Append(p2, Slice(cards, 0, 3)) ELSE p2
           p4 == IF Len(cards) = 4 THEN Append(p3, cards) ELSE p3
       IN  AllPlaysLoop(h, Tail(keys), p4)

\* Player._get_all_possible_plays
get_all_possible_plays(h) == AllPlaysLoop(h, RankKeys(h, <<>>), <<>>)

RECURSIVE BeatLoop_not_strict(_, _, _, _, _)
\* the loop accepting a rank equal to the current play's
BeatLoop_not_strict(h, keys, current_value, num_cards_needed, valid_plays) ==
  IF keys = <<>> THEN valid_plays
  ELSE LET cards == RankGroup(h, Head(keys))
       IN  BeatLoop_not_strict(h, Tail(keys), current_value, num_cards_needed,
                    IF Head(keys) >= current_value /\ Len(cards) >= num_cards_needed
                    THEN Append(valid_plays, Slice(cards, 0, num_cards_needed))
                    ELSE valid_plays)

RECURSIVE BeatLoop(_, _, _, _, _)
\* the final loop of _get_plays_that_beat over rank_groups.items()
BeatLoop(h, keys, current_value, num_cards_needed, valid_plays) ==
  IF keys = <<>> THEN valid_plays
  ELSE LET cards == RankGroup(h, Head(keys))
       IN  BeatLoop(h, Tail(keys), current_value, num_cards_needed,
                    IF Head(keys) > current_value /\ Len(cards) >= num_cards_needed
                    THEN Append(valid_plays, Slice(cards, 0, num_cards_needed))
                    ELSE valid_plays)

\* _get_plays_that_beat adding the 3 of Spades without returning
get_plays_that_beat_no_return(h, cur_play) ==
  LET num_cards_needed == cur_play.num_cards
      current_value == cur_play.rank
      spades == SelectSeq(h, is_three_of_spades)
  IN  IF num_cards_needed = 1 /\ is_three_of_spades(cur_play.cards[1])
      THEN <<>>
      ELSE BeatLoop(h, RankKeys(h, <<>>), current_value, num_cards_needed,
                    IF num_cards_needed = 1 /\ Len(spades) > 0
                    THEN <<<<spades[1]>>>> ELSE <<>>)

\* Player._get_plays_that_beat
get_plays_that_beat(h, cur_play) ==
  LET num_cards_needed == cur_play.num_cards
      current_value == cur_play.rank
      spades == SelectSeq(h, is_three_of_spades)
  IN  IF num_cards_needed = 1 /\ is_three_of_spades(cur_play.cards[1])
      THEN <<>>
      ELSE IF num_cards_needed = 1 /\ Len(spades) > 0
      THEN <<<<spades[1]>>>>
      ELSE BeatLoop(h, RankKeys(h, <<>>), current_value, num_cards_needed, <<>>)

\* the value of an Optional[Play] that is None
NoPlay == [cards |-> <<>>, player |-> NoPlayer, num_cards |-> 0, rank |-> -1]

\* get_valid_plays answering as if leading, whatever the current play
get_valid_plays_ignores_current(h, cur_play) == get_all_possible_plays(h)

\* Player.get_valid_plays
get_valid_plays(h, cur_play) ==
  IF cur_play = NoPlay
  THEN get_all_possible_plays(h)
  ELSE get_plays_that_beat(h, cur_play)

\* list[-num:] (Python slice with a negated bound: -0 is 0, the whole list)
LastSlice(list, num) ==
  IF num = 0 \/ num >= Len(list) THEN list
  ELSE [i \in 1..num |-> list[Len(list) - num + i]]

\* Player.choose_cards_to_give: [raised, hand, cards]; sorts the hand in place
choose_cards_to_give(h, num) ==
  IF num > Len(h) THEN [raised |-> TRUE, hand |-> h, cards |-> <<>>]
  ELSE [raised |-> FALSE, hand |-> sort_hand(h),
        cards |-> LastSlice(sort_hand(h), num)]

(***************************************************************************)
(* trick.py: Play                                                          *)
(***************************************************************************)
\* Play._is_valid_set
is_valid_set(cards) ==
  IF cards = <<>> THEN FALSE
  ELSE \A i \in 1..Len(cards) : cards[i].rank = cards[1].rank

\* Play.__init__ raises ValueError
Play_raises(cards) == cards = <<>> \/ ~is_valid_set(cards)

\* Play.__init__ (when it does not raise)
Play(cards, player) ==
  [cards |-> cards, player |-> player, num_cards |-> Len(cards),
   rank |-> cards[1].rank]

\* beats granting the 3 of Spades rule to a play of any size
beats_any_three_of_spades(self, other) ==
  IF self.num_cards # other.num_cards THEN FALSE
  ELSE IF is_three_of_spades(self.cards[1]) THEN TRUE
  ELSE IF is_three_of_spades(other.cards[1]) THEN FALSE
  ELSE self.rank > other.rank

\* Play.beats
beats(self, other) ==
  IF self.num_cards # other.num_cards THEN FALSE
  ELSE IF self.num_cards = 1 /\ is_three_of_spades(self.cards[1]) THEN TRUE
  ELSE IF other.num_cards = 1 /\ is_three_of_spades(other.cards[1]) THEN FALSE
  ELSE self.rank > other.rank

(***************************************************************************)
(* State                                                                   *)
(***************************************************************************)
VARIABLES
  \* Game
  players,           \* the roster: <<1, ..., n>>, a player is its position
  total_rounds,
  current_round,
  deck,              \* Game.deck.cards
  finished_players,
  \* Player, per roster player
  hand,
  score,
  rank,
  has_passed,
  \* Trick (the trick in progress)
  plays,
  current_play,
  active_players,
  \* locals of play_round / play_trick
  current_player,
  starting_player,
  player_order,
  iterations,
  idx,               \* position of the for loop in player_order (1-based)
  pc,                \* control point of play_game / play_round / play_trick
  \* history: the cards played since the last deal, in order
  played,
  \* history: the exchanges carried out since the last deal, in order, each
  \* as handle_card_exchange reports it: (giver, receiver, number of cards)
  exchanges,
  \* the last call of a queried operation: its arguments and what it returned
  call

vars == <<players, total_rounds, current_round, deck, finished_players,
          hand, score, rank, has_passed, plays, current_play, active_players,
          current_player, starting_player, player_order, iterations, idx, pc,
          played, exchanges, call>>

gameVars == <<players, total_rounds, current_round, deck, finished_players,
              score, rank, exchanges>>
trickVars == <<plays, current_play, active_players>>
localVars == <<current_player, starting_player, player_order, iterations, idx>>

NoCall == [op |-> "none"]

(***************************************************************************)
(* trick.py: Trick, as operators on the state                              *)
(***************************************************************************)
\* Trick.__init__ without the reset
reset_for_new_trick_skipped(hp, active) == hp

\* Trick.__init__: reset_for_new_trick for every player of the list; the
\* has_passed flags it leaves
reset_for_new_trick(hp, active) ==
  [p \in DOMAIN hp |-> IF InList(p, active) THEN FALSE ELSE hp[p]]

\* Trick.add_play raises ValueError for this play
add_play_raises(play) ==
  current_play # NoPlay /\ ~beats(play, current_play)

\* add_play appending to the log before it checks
add_play_appends_then_raises(play) ==
  IF add_play_raises(play)
  THEN [raised |-> TRUE, plays |-> Append(plays, play), current_play |-> current_play]
  ELSE [raised |-> FALSE, plays |-> Append(plays, play), current_play |-> play]

\* Trick.add_play: [raised, plays, current_play] as the call leaves them
add_play(play) ==
  IF add_play_raises(play)
  THEN [raised |-> TRUE, plays |-> plays, current_play |-> current_play]
  ELSE [raised |-> FALSE, plays |-> Append(plays, play), current_play |-> play]

\* Trick.player_passes raises ValueError for this player
player_passes_raises(player) == ~InList(player, active_players)

\* can_play without the check that the player takes part in the trick
can_play_skips_active_check(player, cards) ==
  IF has_passed[player] THEN FALSE
  ELSE IF cards = <<>> THEN FALSE
  ELSE IF ~(\A i \in 1..Len(cards) : cards[i].rank = cards[1].rank) THEN FALSE
  ELSE IF \E i \in 1..Len(cards) : ~InList(cards[i], hand[player]) THEN FALSE
  ELSE IF current_play = NoPlay THEN TRUE
  ELSE IF Play_raises(cards) THEN FALSE
  ELSE beats(Play(cards, player), current_play)

\* Trick.can_play
can_play(player, cards) ==
  IF has_passed[player] THEN FALSE
  ELSE IF ~InList(player, active_players) THEN FALSE
  ELSE IF cards = <<>> THEN FALSE
  ELSE IF ~(\A i \in 1..Len(cards) : cards[i].rank = cards[1].rank) THEN FALSE
  ELSE IF \E i \in 1..Len(cards) : ~InList(cards[i], hand[player]) THEN FALSE
  ELSE IF current_play = NoPlay THEN TRUE
  ELSE IF Play_raises(cards) THEN FALSE
  ELSE beats(Play(cards, player), current_play)

\* the sum in Trick.is_complete / get_active_players_count
get_active_players_count ==
  Len(SelectSeq(active_players, LAMBDA p : ~has_passed[p]))

\* is_complete without the check that a play was made
is_complete_ignores_no_play == get_active_players_count <= 1

\* Trick.is_complete
is_complete ==
  IF current_play = NoPlay THEN FALSE
  ELSE get_active_players_count <= 1

\* get_winner without the completeness check
get_winner_unchecked ==
  IF current_play = NoPlay THEN NoPlayer ELSE current_play.player

\* Trick.get_winner (NoPlayer for None)
get_winner_of_trick ==
  IF ~is_complete THEN NoPlayer
  ELSE IF current_play = NoPlay THEN NoPlayer
  ELSE current_play.player

(***************************************************************************)
(* game.py: Game                                                           *)
(***************************************************************************)
\* the last roster player holding rank label r (the loop of
\* handle_card_exchange keeps the last match), NoPlayer if none
PlayerByRank(rk, r) ==
  IF \E p \in DOMAIN rk : rk[p] = r
  THEN CHOOSE p \in DOMAIN rk : rk[p] = r /\ \A q \in DOMAIN rk : rk[q] = r => q <= p
  ELSE NoPlayer

\* an automatic exchange without the giver's remove_cards: the cards are
\* copied to the receiver, not moved
ExchangeAuto_without_remove(h, low, high, num) ==
  LET give == choose_cards_to_give(h[low], num)
      cards_from_low == give.cards
      low1 == give.hand
      high1 == sort_hand(add_cards(h[high], cards_from_low))
      cards_from_high == Slice(high1, 0, num)
      high2 == remove_cards(high1, cards_from_high).hand
      low2 == add_cards(low1, cards_from_high)
  IN  [h EXCEPT ![low] = low2, ![high] = high2]

\* one automatic exchange of handle_card_exchange: low gives its num
\* strongest cards to high, high sorts and gives back its first num cards
ExchangeAuto(h, low, high, num) ==
  LET give == choose_cards_to_give(h[low], num)
      cards_from_low == give.cards
      low1 == remove_cards(give.hand, cards_from_low).hand
      high1 == sort_hand(add_cards(h[high], cards_from_low))
      cards_from_high == Slice(high1, 0, num)
      high2 == remove_cards(high1, cards_from_high).hand
      low2 == add_cards(low1, cards_from_high)
  IN  [h EXCEPT ![low] = low2, ![high] = high2]

\* the cards one automatic exchange moves: cards_from_scum, the receiver's
\* hand once it has received and sorted, cards_from_president
ExchangeAutoCards(h, low, high, num) ==
  LET give == choose_cards_to_give(h[low], num)
      high1 == sort_hand(add_cards(h[high], give.cards))
  IN  [low |-> low, high |-> high, num |-> num,
       low_hand |-> h[low], from_low |-> give.cards,
       high_received |-> high1, from_high |-> Slice(high1, 0, num)]

\* one exchange of handle_card_exchange(interactive=True): low gives its num
\* strongest cards, high gives back the cards chosen through ui_callback, at
\* the positions chosen of its hand as it stands after receiving; the
\* callback shows the hand with display_hand, which sorts it
ExchangeUI(h, low, high, num, chosen) ==
  LET give == choose_cards_to_give(h[low], num)
      cards_from_low == give.cards
      low1 == remove_cards(give.hand, cards_from_low).hand
      high1 == sort_hand(add_cards(h[high], cards_from_low))
      cards_from_high == [i \in 1..num |-> high1[chosen[i]]]
      high2 == remove_cards(high1, cards_from_high).hand
      low2 == add_cards(low1, cards_from_high)
  IN  [h EXCEPT ![low] = low2, ![high] = high2]

\* handle_card_exchange taking the 2 cards for the President from the last
\* player of the roster, whatever that player's rank
handle_card_exchange_last_gives(h, rk) ==
  LET president == PlayerByRank(rk, "President")
      vice_president == PlayerByRank(rk, "Vice-President")
      vice_scum == PlayerByRank(rk, "Vice-Scum")
      scum == IF players[Len(players)] # president
              THEN players[Len(players)] ELSE players[1]
      h1 == IF president # NoPlayer
               /\ Len(h[scum]) >= 2 /\ Len(h[president]) >= 2
            THEN ExchangeAuto(h, scum, president, 2)
            ELSE h
  IN  IF vice_president # NoPlayer /\ vice_scum # NoPlayer
         /\ Len(h1[vice_scum]) >= 1 /\ Len(h1[vice_president]) >= 1
      THEN ExchangeAuto(h1, vice_scum, vice_president, 1)
      ELSE h1

\* Game.handle_card_exchange(interactive=False): the hands it leaves
handle_card_exchange(h, rk) ==
  LET president == PlayerByRank(rk, "President")
      vice_president == PlayerByRank(rk, "Vice-President")
      vice_scum == PlayerByRank(rk, "Vice-Scum")
      scum == PlayerByRank(rk, "Scum")
      h1 == IF president # NoPlayer /\ scum # NoPlayer
               /\ Len(h[scum]) >= 2 /\ Len(h[president]) >= 2
            THEN ExchangeAuto(h, scum, president, 2)
            ELSE h
  IN  IF vice_president # NoPlayer /\ vice_scum # NoPlayer
         /\ Len(h1[vice_scum]) >= 1 /\ Len(h1[vice_president]) >= 1
      THEN ExchangeAuto(h1, vice_scum, vice_president, 1)
      ELSE h1

\* Game.handle_card_exchange(interactive=True, ui_callback): the hands it
\* leaves when the President chooses the positions chosen2 and the
\* Vice-President the position chosen1
handle_card_exchange_interactive(h, rk, chosen2, chosen1) ==
  LET president == PlayerByRank(rk, "President")
      vice_president == PlayerByRank(rk, "Vice-President")
      vice_scum == PlayerByRank(rk, "Vice-Scum")
      scum == PlayerByRank(rk, "Scum")
      h1 == IF president # NoPlayer /\ scum # NoPlayer
               /\ Len(h[scum]) >= 2 /\ Len(h[president]) >= 2
            THEN ExchangeUI(h, scum, president, 2, chosen2)
            ELSE h
  IN  IF vice_president # NoPlayer /\ vice_scum # NoPlayer
         /\ Len(h1[vice_scum]) >= 1 /\ Len(h1[vice_president]) >= 1
      THEN ExchangeUI(h1, vice_scum, vice_president, 1, chosen1)
      ELSE h1

\* the cards the automatic exchanges of handle_card_exchange move, in order
exchange_moves(h, rk) ==
  LET president == PlayerByRank(rk, "President")
      vice_president == PlayerByRank(rk, "Vice-President")
      vice_scum == PlayerByRank(rk, "Vice-Scum")
      scum == PlayerByRank(rk, "Scum")
      first == IF president # NoPlayer /\ scum # NoPlayer
                  /\ Len(h[scum]) >= 2 /\ Len(h[president]) >= 2
               THEN <<ExchangeAutoCards(h, scum, president, 2)>>
               ELSE <<>>
      h1 == IF first = <<>> THEN h ELSE ExchangeAuto(h, scum, president, 2)
  IN  IF vice_president # NoPlayer /\ vice_scum # NoPlayer
         /\ Len(h1[vice_scum]) >= 1 /\ Len(h1[vice_president]) >= 1
      THEN Append(first, ExchangeAutoCards(h1, vice_scum, vice_president, 1))
      ELSE first

\* Game.handle_card_exchange: the list of exchanges it returns
exchanges_made(h, rk) ==
  LET president == PlayerByRank(rk, "President")
      vice_president == PlayerByRank(rk, "Vice-President")
      vice_scum == PlayerByRank(rk, "Vice-Scum")
      scum == PlayerByRank(rk, "Scum")
      first == IF president # NoPlayer /\ scum # NoPlayer
                  /\ Len(h[scum]) >= 2 /\ Len(h[president]) >= 2
               THEN <<[low |-> scum, high |-> president, num |-> 2]>>
               ELSE <<>>
      h1 == IF first = <<>> THEN h ELSE ExchangeAuto(h, scum, president, 2)
  IN  IF vice_president # NoPlayer /\ vice_scum # NoPlayer
         /\ Len(h1[vice_scum]) >= 1 /\ Len(h1[vice_president]) >= 1
      THEN Append(first, [low |-> vice_scum, high |-> vice_president, num |-> 1])
      ELSE first

\* Game.setup_round, for the permutation s drawn by the shuffle: the deck and
\* the hands it leaves
setup_round(s, round, rk) ==
  LET cards == Shuffle(Deck_init, s)
      hands == Deck_deal(cards, Len(players)).hands
      dealt == [p \in DOMAIN hand |-> sort_hand(add_cards(<<>>, hands[p]))]
  IN  [deck |-> cards,
       hand |-> IF round > 0 THEN handle_card_exchange(dealt, rk) ELSE dealt,
       exchanges |-> IF round > 0 THEN exchanges_made(dealt, rk) ELSE <<>>]

\* Game.find_starting_player: the first roster player holding the 3 of
\* Clubs; NoPlayer when it raises RuntimeError
find_starting_player(h) ==
  IF \E p \in DOMAIN h : has_three_of_clubs(h[p])
  THEN CHOOSE p \in DOMAIN h :
         has_three_of_clubs(h[p]) /\ \A q \in 1..(p - 1) : ~has_three_of_clubs(h[q])
  ELSE NoPlayer

\* get_active_players returning the whole roster
get_active_players_whole_roster(h) == players

\* Game.get_active_players
get_active_players(h) == SelectSeq(players, LAMBDA p : ~is_hand_empty(h[p]))

\* assign_ranks assigning the vice ranks whatever the roster size
assign_ranks_vice_always(finished, rk) ==
  IF Len(finished) < 2 THEN rk
  ELSE LET r0 == [p \in DOMAIN rk |-> "Neutral"]
           r1 == [r0 EXCEPT ![finished[1]] = "President"]
           r2 == [r1 EXCEPT ![finished[Len(finished)]] = "Scum"]
           r3 == [r2 EXCEPT ![finished[2]] = "Vice-President"]
       IN  [r3 EXCEPT ![finished[Len(finished) - 1]] = "Vice-Scum"]

\* assign_ranks stopping after the reset when the first finisher is President
\* already
assign_ranks_resets_president(finished, rk) ==
  IF Len(finished) < 2 THEN rk
  ELSE LET r0 == [p \in DOMAIN rk |-> "Neutral"]
           r1 == [r0 EXCEPT ![finished[1]] = "President"]
           r2 == [r1 EXCEPT ![finished[Len(finished)]] = "Scum"]
           r3 == [r2 EXCEPT ![finished[2]] = "Vice-President"]
           r4 == [r3 EXCEPT ![finished[Len(finished) - 1]] = "Vice-Scum"]
       IN  IF rk[finished[1]] = "President" THEN r0
           ELSE IF Len(players) >= 4 THEN r4 ELSE r2

\* Game.assign_ranks: the rank labels it leaves
assign_ranks(finished, rk) ==
  IF Len(finished) < 2 THEN rk
  ELSE LET r0 == [p \in DOMAIN rk |-> "Neutral"]
           r1 == [r0 EXCEPT ![finished[1]] = "President"]
           r2 == [r1 EXCEPT ![finished[Len(finished)]] = "Scum"]
           r3 == [r2 EXCEPT ![finished[2]] = "Vice-President"]
           r4 == [r3 EXCEPT ![finished[Len(finished) - 1]] = "Vice-Scum"]
       IN  IF Len(players) >= 4 THEN r4 ELSE r2

\* max(a, b)
Max(a, b) == IF a >= b THEN a ELSE b

\* calculate_scores with the final bonus total_rounds - 2, without the max
calculate_scores_bonus_without_max(finished, sc, is_final_round) ==
  IF finished = <<>> THEN sc
  ELSE LET president == finished[1]
       IN  IF is_final_round
           THEN [sc EXCEPT ![president] = @ + (total_rounds - 2)]
           ELSE [sc EXCEPT ![president] = @ + 1]

\* calculate_scores awarding 1 point in the final round too
calculate_scores_flat(finished, sc, is_final_round) ==
  IF finished = <<>> THEN sc
  ELSE [sc EXCEPT ![finished[1]] = @ + 1]

\* Game.calculate_scores: the scores it leaves
calculate_scores(finished, sc, is_final_round) ==
  IF finished = <<>> THEN sc
  ELSE LET president == finished[1]
       IN  IF is_final_round
           THEN [sc EXCEPT ![president] = @ + Max(2, total_rounds - 2)]
           ELSE [sc EXCEPT ![president] = @ + 1]

\* get_winner returning the first of the players with the maximum score
get_winner_first_of_ties(sc) ==
  LET max_score == CHOOSE m \in {sc[p] : p \in DOMAIN sc} :
                     \A p \in DOMAIN sc : sc[p] <= m
      winners == SelectSeq(players, LAMBDA p : sc[p] = max_score)
  IN  IF players = <<>> THEN NoPlayer ELSE winners[1]

\* Game.get_winner: NoPlayer for None
get_winner(sc) ==
  LET max_score == CHOOSE m \in {sc[p] : p \in DOMAIN sc} :
                     \A p \in DOMAIN sc : sc[p] <= m
      winners == SelectSeq(players, LAMBDA p : sc[p] = max_score)
  IN  IF players = <<>> THEN NoPlayer
      ELSE IF Len(winners) = 1 THEN winners[1] ELSE NoPlayer

(***************************************************************************)
(* The game driven by Game.play_game: automatic play                       *)
(***************************************************************************)
\* Game.__init__ creating its players already ranked: the first President,
\* the last Scum
Game_init_ranked(n, r) ==
  /\ players = [i \in 1..n |-> i]
  /\ total_rounds = r
  /\ current_round = 0
  /\ deck = Deck_init
  /\ finished_players = <<>>
  /\ hand = [p \in 1..n |-> <<>>]
  /\ score = [p \in 1..n |-> 0]
  /\ rank = [p \in 1..n |-> IF p = 1 THEN "President"
                            ELSE IF p = n THEN "Scum" ELSE "Neutral"]
  /\ has_passed = [p \in 1..n |-> FALSE]

\* Game.__init__ for n names and r rounds
Game_init(n, r) ==
  /\ players = [i \in 1..n |-> i]
  /\ total_rounds = r
  /\ current_round = 0
  /\ deck = Deck_init
  /\ finished_players = <<>>
  /\ hand = [p \in 1..n |-> <<>>]
  /\ score = [p \in 1..n |-> 0]
  /\ rank = [p \in 1..n |-> "None"]
  /\ has_passed = [p \in 1..n |-> FALSE]

\* no trick constructed, no call in progress
Idle ==
  /\ plays = <<>>
  /\ current_play = NoPlay
  /\ active_players = <<>>
  /\ current_player = NoPlayer
  /\ starting_player = NoPlayer
  /\ player_order = <<>>
  /\ iterations = 0
  /\ idx = 0
  /\ played = <<>>
  /\ exchanges = <<>>
  /\ call = NoCall

Init ==
  /\ \E n \in MIN_PLAYERS..MaxPlayers : \E r \in 1..MaxRounds : Game_init(n, r)
  /\ Idle
  /\ pc = "play_game"

\* play_game's loop enters play_round: current_round += 1, setup_round,
\* find_starting_player
PlayRoundBegin ==
  /\ pc = "play_game"
  /\ current_round < total_rounds
  /\ \E s \in 0..(NumShuffles - 1) :
       LET su == setup_round(s, current_round + 1, rank)
           first == find_starting_player(su.hand)
       IN  /\ current_round' = current_round + 1
           /\ deck' = su.deck
           /\ hand' = su.hand
           /\ has_passed' = [p \in DOMAIN has_passed |-> FALSE]
           /\ finished_players' = <<>>
           /\ played' = <<>>
           /\ exchanges' = su.exchanges
           /\ current_player' = first
           /\ pc' = IF first = NoPlayer THEN "RuntimeError" ELSE "play_round"
  /\ UNCHANGED <<players, total_rounds, score, rank, trickVars,
                 starting_player, player_order, iterations, idx, call>>

\* play_round's while loop runs play_trick: its prologue up to the sweep loop
PlayTrickBegin ==
  /\ pc = "play_round"
  /\ Len(get_active_players(hand)) > 1
  /\ LET active == get_active_players(hand)
         start == IF InList(current_player, active) THEN current_player
                  ELSE active[1]
         start_idx == IndexOf(start, active) - 1
     IN  /\ starting_player' = start
         /\ plays' = <<>>
         /\ current_play' = NoPlay
         /\ active_players' = active
         /\ has_passed' = reset_for_new_trick(has_passed, active)
         /\ player_order' = [i \in 1..Len(active) |->
                               active[((start_idx + (i - 1)) % Len(active)) + 1]]
  /\ iterations' = 0
  /\ idx' = 0
  /\ pc' = "while"
  /\ UNCHANGED <<gameVars, hand, current_player, played, call>>

\* the while loop of play_trick starts another sweep
PlayTrickSweep ==
  /\ pc = "while"
  /\ ~is_complete /\ iterations < max_iterations
  /\ iterations' = iterations + 1
  /\ idx' = 1
  /\ pc' = "for"
  /\ UNCHANGED <<gameVars, hand, has_passed, trickVars, current_player,
                 starting_player, player_order, played, call>>

\* the for loop ends: player_order is exhausted, or the trick is complete
PlayTrickSweepEnd ==
  /\ pc = "for"
  /\ idx > Len(player_order) \/ is_complete
  /\ pc' = "while"
  /\ UNCHANGED <<gameVars, hand, has_passed, trickVars, current_player,
                 starting_player, player_order, iterations, idx, played, call>>

\* the for loop skips a player who has passed or holds no cards
PlayTrickSkip ==
  /\ pc = "for"
  /\ idx <= Len(player_order) /\ ~is_complete
  /\ LET player == player_order[idx]
     IN  has_passed[player] \/ is_hand_empty(hand[player])
  /\ idx' = idx + 1
  /\ UNCHANGED <<gameVars, hand, has_passed, trickVars, current_player,
                 starting_player, player_order, iterations, pc, played, call>>

\* the player at idx decides: plays the first valid play, or passes
PlayTrickTurn ==
  /\ pc = "for"
  /\ idx <= Len(player_order) /\ ~is_complete
  /\ LET player == player_order[idx]
         valid_plays == get_valid_plays(hand[player], current_play)
     IN  /\ ~(has_passed[player] \/ is_hand_empty(hand[player]))
         /\ IF valid_plays # <<>> /\ can_play(player, valid_plays[1])
            THEN LET cards_to_play == valid_plays[1]
                     added == add_play(Play(cards_to_play, player))
                     removed == remove_cards(hand[player], cards_to_play)
                 IN  IF Play_raises(cards_to_play) \/ added.raised
                     THEN /\ pc' = "ValueError"
                          /\ UNCHANGED <<hand, has_passed, trickVars,
                                         finished_players, played, idx>>
                     ELSE /\ plays' = added.plays
                          /\ current_play' = added.current_play
                          /\ hand' = [hand EXCEPT ![player] = removed.hand]
                          /\ played' = played \o cards_to_play
                          /\ IF removed.raised
                             THEN /\ pc' = "ValueError"
                                  /\ UNCHANGED <<finished_players, idx>>
                             ELSE /\ finished_players' =
                                       IF is_hand_empty(removed.hand)
                                          /\ ~InList(player, finished_players)
                                       THEN Append(finished_players, player)
                                       ELSE finished_players
                                  /\ idx' = idx + 1
                                  /\ pc' = "for"
                          /\ UNCHANGED <<has_passed, active_players>>
            ELSE /\ IF player_passes_raises(player)
                    THEN /\ pc' = "ValueError"
                         /\ UNCHANGED <<has_passed, idx>>
                    ELSE /\ has_passed' = [has_passed EXCEPT ![player] = TRUE]
                         /\ idx' = idx + 1
                         /\ pc' = "for"
                 /\ UNCHANGED <<hand, trickVars, finished_players, played>>
  /\ UNCHANGED <<players, total_rounds, current_round, deck, score, rank,
                 exchanges, current_player, starting_player, player_order,
                 iterations, call>>

\* play_trick returns trick.get_winner(), or starting_player when that is
\* None; play_round makes the result the next leader
PlayTrickReturn ==
  /\ pc = "while"
  /\ ~(~is_complete /\ iterations < max_iterations)
  /\ LET winner == get_winner_of_trick
     IN  current_player' = IF winner # NoPlayer THEN winner ELSE starting_player
  /\ pc' = "play_round"
  /\ UNCHANGED <<gameVars, hand, has_passed, trickVars, starting_player,
                 player_order, iterations, idx, played, call>>

\* play_round after its while loop, without appending the last player
PlayRoundEnd_without_last ==
  /\ pc = "play_round"
  /\ ~(Len(get_active_players(hand)) > 1)
  /\ finished_players' = finished_players
  /\ rank' = assign_ranks(finished_players, rank)
  /\ score' = calculate_scores(finished_players, score, current_round = total_rounds)
  /\ pc' = "play_game"
  /\ UNCHANGED <<players, total_rounds, current_round, deck, hand, has_passed,
                 exchanges, trickVars, localVars, played, call>>

\* play_round after its while loop: the last player with cards is appended,
\* ranks are assigned and scores awarded
PlayRoundEnd ==
  /\ pc = "play_round"
  /\ ~(Len(get_active_players(hand)) > 1)
  /\ LET remaining == get_active_players(hand)
         finished == IF remaining # <<>>
                     THEN Append(finished_players, remaining[1])
                     ELSE finished_players
     IN  /\ finished_players' = finished
         /\ rank' = assign_ranks(finished, rank)
         /\ score' = calculate_scores(finished, score, current_round = total_rounds)
  /\ pc' = "play_game"
  /\ UNCHANGED <<players, total_rounds, current_round, deck, hand, has_passed,
                 exchanges, trickVars, localVars, played, call>>

\* play_game returning the first roster player whatever the scores
PlayGameReturn_first_player ==
  /\ pc = "play_game"
  /\ ~(current_round < total_rounds)
  /\ call' = [op |-> "play_game", result |-> players[1]]
  /\ pc' = "done"
  /\ UNCHANGED <<gameVars, hand, has_passed, trickVars, localVars, played>>

\* play_game after its loop: get_winner(), or the first roster player
PlayGameReturn ==
  /\ pc = "play_game"
  /\ ~(current_round < total_rounds)
  /\ LET winner == get_winner(score)
     IN  call' = [op |-> "play_game",
                  result |-> IF winner # NoPlayer THEN winner ELSE players[1]]
  /\ pc' = "done"
  /\ UNCHANGED <<gameVars, hand, has_passed, trickVars, localVars, played>>

Next ==
  \/ PlayRoundBegin
  \/ PlayTrickBegin
  \/ PlayTrickSweep
  \/ PlayTrickSweepEnd
  \/ PlayTrickSkip
  \/ PlayTrickTurn
  \/ PlayTrickReturn
  \/ PlayRoundEnd
  \/ PlayGameReturn

Spec == Init /\ [][Next]_vars

\* the steps of play_round after setup_round and find_starting_player, and
\* of the play_trick calls it makes, other than a player's decision
RoundStep ==
  \/ PlayTrickBegin
  \/ PlayTrickSweep
  \/ PlayTrickSweepEnd
  \/ PlayTrickSkip
  \/ PlayTrickReturn
  \/ PlayRoundEnd

\* the for loop of play_trick is at a player who has not passed and holds
\* cards: the condition under which PlayTrickTurn can be taken
PlayTrickTurnEnabled ==
  /\ pc = "for"
  /\ idx <= Len(player_order) /\ ~is_complete
  /\ ~(has_passed[player_order[idx]] \/ is_hand_empty(hand[player_order[idx]]))

\* play_game as the interpreter runs it: inside play_round a statement that
\* can execute does execute, so no call of play_round or play_trick is
\* suspended for ever. Weak fairness of RoundStep, and weak fairness of
\* PlayTrickTurn written out with its enabling condition.
SpecFair ==
  /\ Init /\ [][Next]_vars
  /\ WF_vars(RoundStep)
  /\ ([]<>(~PlayTrickTurnEnabled) \/ []<><<PlayTrickTurn>>_vars)

(***************************************************************************)
(* The small deck of the interface specifications: both threes that matter *)
(* (Clubs, Spades), the four fours, two twos (the highest rank)            *)
(***************************************************************************)
ApiDeck ==
  <<Card("CLUBS", THREE), Card("SPADES", THREE),
    Card("CLUBS", 1), Card("DIAMONDS", 1), Card("HEARTS", 1), Card("SPADES", 1),
    Card("CLUBS", TWO), Card("DIAMONDS", TWO)>>

ApiCards == {ApiDeck[i] : i \in 1..Len(ApiDeck)}

\* the lists of at most n cards of the small deck (cards may repeat)
CardLists(n) == UNION {[1..k -> ApiCards] : k \in 0..n}

\* the lists of 1..4 distinct cards of one rank of the small deck
PlayCardLists ==
  {cards \in UNION {[1..k -> {c \in ApiCards : c.rank = r}] :
                      k \in 1..4, r \in {c.rank : c \in ApiCards}} :
     \A i, j \in 1..Len(cards) : i # j => cards[i] # cards[j]}

(***************************************************************************)
(* The Trick interface driven by a caller, as the unit tests drive it: a   *)
(* roster of three players holding a deal of the small deck, tricks        *)
(* constructed on a list of players, plays added and players passing in    *)
(* any order.                                                              *)
(***************************************************************************)
\* the player lists tricks are constructed on
TrickRosters == {<<1, 2, 3>>, <<1, 2>>}

TrickInit ==
  /\ players = <<1, 2, 3>>
  /\ total_rounds = 1
  /\ current_round = 0
  /\ finished_players = <<>>
  /\ score = [p \in 1..3 |-> 0]
  /\ rank = [p \in 1..3 |-> "None"]
  /\ has_passed = [p \in 1..3 |-> FALSE]
  /\ \E s \in 0..(NumShuffles - 1) :
       /\ deck = Shuffle(ApiDeck, s)
       /\ hand = [p \in 1..3 |-> sort_hand(Deck_deal(deck, 3).hands[p])]
  /\ plays = <<>>
  /\ current_play = NoPlay
  /\ active_players = <<1, 2, 3>>
  /\ current_player = NoPlayer
  /\ starting_player = NoPlayer
  /\ player_order = <<>>
  /\ iterations = 0
  /\ idx = 0
  /\ played = <<>>
  /\ exchanges = <<>>
  /\ call = NoCall
  /\ pc = "api"

\* Trick.__init__(active)
TrickNew ==
  /\ call = NoCall
  /\ \E active \in TrickRosters :
       /\ plays' = <<>>
       /\ current_play' = NoPlay
       /\ active_players' = active
       /\ has_passed' = reset_for_new_trick(has_passed, active)
  /\ UNCHANGED <<gameVars, hand, localVars, pc, played, call>>

\* trick.add_play(Play(cards, player)) for a play the player's hand offers
TrickAddPlay ==
  /\ call = NoCall
  /\ Len(plays) < MaxLog
  /\ \E player \in DOMAIN hand :
       \E k \in 1..Len(get_all_possible_plays(hand[player])) :
         LET play == Play(get_all_possible_plays(hand[player])[k], player)
             added == add_play(play)
         IN  /\ plays' = added.plays
             /\ current_play' = added.current_play
             /\ call' = [op |-> "add_play", play |-> play, raised |-> added.raised]
  /\ UNCHANGED <<gameVars, hand, has_passed, active_players, localVars, pc, played>>

\* trick.player_passes(player)
TrickPass ==
  /\ call = NoCall
  /\ \E player \in DOMAIN hand :
       /\ has_passed' = IF player_passes_raises(player) THEN has_passed
                        ELSE [has_passed EXCEPT ![player] = TRUE]
       /\ call' = [op |-> "player_passes", player |-> player,
                   raised |-> player_passes_raises(player)]
  /\ UNCHANGED <<gameVars, hand, trickVars, localVars, pc, played>>

\* trick.can_play(player, cards)
TrickCanPlay ==
  /\ call = NoCall
  /\ \E player \in DOMAIN hand : \E cards \in CardLists(2) :
       call' = [op |-> "can_play", player |-> player, cards |-> cards,
                result |-> can_play(player, cards)]
  /\ UNCHANGED <<gameVars, hand, has_passed, trickVars, localVars, pc, played>>

\* the caller takes the result of the call
Return ==
  /\ call # NoCall
  /\ call' = NoCall
  /\ UNCHANGED <<gameVars, hand, has_passed, trickVars, localVars, pc, played>>

TrickNext ==
  \/ TrickNew
  \/ TrickAddPlay
  \/ TrickPass
  \/ TrickCanPlay
  \/ Return

SpecTrick == TrickInit /\ [][TrickNext]_vars

(***************************************************************************)
(* Play.beats applied to any two plays of the small deck                   *)
(***************************************************************************)
\* a constructed game outside any round, seen through its interface
ApiInit(n) ==
  /\ Game_init(n, 1)
  /\ Idle
  /\ pc = "api"

PlayInit == ApiInit(3)

\* self.beats(other)
PlayBeats ==
  /\ call = NoCall
  /\ \E self_cards \in PlayCardLists : \E other_cards \in PlayCardLists :
       LET self == Play(self_cards, 1)
           other == Play(other_cards, 2)
       IN  call' = [op |-> "beats", self |-> self, other |-> other,
                    result |-> beats(self, other)]
  /\ UNCHANGED <<gameVars, hand, has_passed, trickVars, localVars, pc, played>>

PlayNext ==
  \/ PlayBeats
  \/ Return

SpecPlay == PlayInit /\ [][PlayNext]_vars

(***************************************************************************)
(* Player.get_valid_plays applied to any duplicate-free hand of at most    *)
(* MaxHand cards of the small deck, in any order, and any current play     *)
(***************************************************************************)
\* the hands: lists of distinct cards
ApiHands ==
  {h \in CardLists(MaxHand) : \A i, j \in 1..Len(h) : i # j => h[i] # h[j]}

PlayerInit ==
  /\ players = <<1, 2, 3>>
  /\ total_rounds = 1
  /\ current_round = 0
  /\ deck = Deck_init
  /\ finished_players = <<>>
  /\ \E h \in ApiHands : hand = [p \in 1..3 |-> IF p = 1 THEN h ELSE <<>>]
  /\ score = [p \in 1..3 |-> 0]
  /\ rank = [p \in 1..3 |-> "None"]
  /\ has_passed = [p \in 1..3 |-> FALSE]
  /\ Idle
  /\ pc = "api"

\* player.get_valid_plays() and player.get_valid_plays(None): leading
PlayerGetValidPlaysLead ==
  /\ call = NoCall
  /\ call' = [op |-> "get_valid_plays", current_play |-> NoPlay,
              result |-> get_valid_plays(hand[1], NoPlay)]
  /\ UNCHANGED <<gameVars, hand, has_passed, trickVars, localVars, pc, played>>

\* player.get_valid_plays(current_play) against a play of another player
PlayerGetValidPlaysBeat ==
  /\ call = NoCall
  /\ \E cards \in PlayCardLists :
       call' = [op |-> "get_valid_plays", current_play |-> Play(cards, 2),
                result |-> get_valid_plays(hand[1], Play(cards, 2))]
  /\ UNCHANGED <<gameVars, hand, has_passed, trickVars, localVars, pc, played>>

PlayerNext ==
  \/ PlayerGetValidPlaysLead
  \/ PlayerGetValidPlaysBeat
  \/ Return

SpecPlayer == PlayerInit /\ [][PlayerNext]_vars

(***************************************************************************)
(* Tricks played by hand on a deal of the small deck: at a turn a player   *)
(* who holds cards and has not passed plays any of the valid plays or      *)
(* passes; the cards played leave the hand.                                *)
(***************************************************************************)
TurnInit ==
  /\ TrickInit
  /\ active_players = get_active_players(hand)

\* Trick(active) on the players still holding cards, once the trick in
\* progress is complete
TurnNew ==
  /\ is_complete
  /\ Len(get_active_players(hand)) > 1
  /\ LET active == get_active_players(hand)
     IN  /\ plays' = <<>>
         /\ current_play' = NoPlay
         /\ active_players' = active
         /\ has_passed' = reset_for_new_trick(has_passed, active)
  /\ UNCHANGED <<gameVars, hand, localVars, pc, played, call>>

\* a turn taken with one of the valid plays: can_play, add_play, remove_cards
TurnPlay ==
  /\ ~is_complete
  /\ \E player \in DOMAIN hand :
       /\ InList(player, active_players)
       /\ ~(has_passed[player] \/ is_hand_empty(hand[player]))
       /\ \E k \in 1..Len(get_valid_plays(hand[player], current_play)) :
            LET cards_to_play == get_valid_plays(hand[player], current_play)[k]
                added == add_play(Play(cards_to_play, player))
                removed == remove_cards(hand[player], cards_to_play)
            IN  /\ can_play(player, cards_to_play)
                /\ ~added.raised /\ ~removed.raised
                /\ plays' = added.plays
                /\ current_play' = added.current_play
                /\ hand' = [hand EXCEPT ![player] = removed.hand]
                /\ played' = played \o cards_to_play
  /\ UNCHANGED <<gameVars, has_passed, active_players, localVars, pc, call>>

\* a turn taken by passing
TurnPass ==
  /\ ~is_complete
  /\ \E player \in DOMAIN hand :
       /\ InList(player, active_players)
       /\ ~(has_passed[player] \/ is_hand_empty(hand[player]))
       /\ has_passed' = [has_passed EXCEPT ![player] = TRUE]
  /\ UNCHANGED <<gameVars, hand, trickVars, localVars, pc, played, call>>

TurnNext ==
  \/ TurnNew
  \/ TurnPlay
  \/ TurnPass

SpecTurn == TurnInit /\ [][TurnNext]_vars

(***************************************************************************)
(* Game.assign_ranks applied to any duplicate-free finish order, as the    *)
(* unit tests apply it: finished_players is set, then assign_ranks() runs  *)
(***************************************************************************)
\* the duplicate-free lists of players of a roster of n
FinishOrders(n) ==
  {f \in UNION {[1..k -> 1..n] : k \in 0..n} :
     \A i, j \in 1..Len(f) : i # j => f[i] # f[j]}

RanksInit ==
  /\ \E n \in MIN_PLAYERS..MaxPlayers : Game_init(n, 1)
  /\ Idle
  /\ pc = "api"

\* game.finished_players = finished; game.assign_ranks()
RanksAssign ==
  /\ call = NoCall
  /\ \E finished \in FinishOrders(Len(players)) :
       /\ finished_players' = finished
       /\ rank' = assign_ranks(finished, rank)
  /\ call' = [op |-> "assign_ranks", rank_before |-> rank]
  /\ UNCHANGED <<players, total_rounds, current_round, deck, score, hand,
                 exchanges, has_passed, trickVars, localVars, pc, played>>

\* game.assign_ranks() once more, finished_players as it stands
RanksAssignAgain ==
  /\ call.op = "assign_ranks"
  /\ rank' = assign_ranks(finished_players, rank)
  /\ call' = [op |-> "assign_ranks_again", rank_before |-> rank]
  /\ UNCHANGED <<players, total_rounds, current_round, deck, score, hand,
                 finished_players, exchanges, has_passed, trickVars, localVars,
                 pc, played>>

RanksNext ==
  \/ RanksAssign
  \/ RanksAssignAgain
  \/ Return

SpecRanks == RanksInit /\ [][RanksNext]_vars

(***************************************************************************)
(* Game.calculate_scores and Game.get_winner applied as the unit tests     *)
(* apply them: finished_players is set, calculate_scores(is_final_round)   *)
(* runs, get_winner() is asked, in games of 1 .. MaxRounds + 3 rounds      *)
(***************************************************************************)
\* the sum of a list of numbers
RECURSIVE SumSeq(_)
SumSeq(list) == IF list = <<>> THEN 0 ELSE list[1] + SumSeq(Tail(list))

\* the finish orders applied: none recorded, or the roster starting at any
\* of its players
ScoredOrders ==
  {<<>>} \cup {[i \in 1..Len(players) |-> players[((k + i - 2) % Len(players)) + 1]] :
                 k \in 1..Len(players)}

ScoresInit ==
  /\ \E n \in MIN_PLAYERS..MaxPlayers : \E r \in 1..(MaxRounds + 3) : Game_init(n, r)
  /\ Idle
  /\ pc = "api"

\* game.finished_players = finished; game.calculate_scores(is_final_round)
ScoresCalculate ==
  /\ call = NoCall
  /\ SumSeq(score) < MaxScore
  /\ \E finished \in ScoredOrders : \E is_final_round \in BOOLEAN :
       /\ finished_players' = finished
       /\ score' = calculate_scores(finished, score, is_final_round)
       /\ call' = [op |-> "calculate_scores", is_final_round |-> is_final_round]
  /\ UNCHANGED <<players, total_rounds, current_round, deck, rank, hand,
                 exchanges, has_passed, trickVars, localVars, pc, played>>

\* game.get_winner()
ScoresGetWinner ==
  /\ call = NoCall
  /\ call' = [op |-> "get_winner", result |-> get_winner(score)]
  /\ UNCHANGED <<gameVars, hand, has_passed, trickVars, localVars, pc, played>>

ScoresNext ==
  \/ ScoresCalculate
  \/ ScoresGetWinner
  \/ Return

SpecScores == ScoresInit /\ [][ScoresNext]_vars

(***************************************************************************)
(* Game.handle_card_exchange applied to dealt hands under any ranks a      *)
(* finished round leaves: the full deck or the small deck is dealt, ranks  *)
(* are those of any finish order, then the exchange runs, automatic or     *)
(* with the cards to give back chosen through the callback                 *)
(***************************************************************************)
\* the positions i < j of two cards of a hand of n cards
ChosenPairs(n) == {c \in (1..n) \X (1..n) : c[1] < c[2]}

\* the finish orders the ranks of an exchange come from: the whole roster in
\* each rotation, and the roster without its last player (assign_ranks on
\* the players finished so far)
ExchangeOrders ==
  (ScoredOrders \ {<<>>}) \cup {SubSeq(players, 1, Len(players) - 1)}

ExchangeInit ==
  /\ \E n \in MIN_PLAYERS..MaxPlayers : Game_init(n, 2)
  /\ Idle
  /\ pc = "api"

\* hands dealt and sorted as setup_round deals them; ranks as assign_ranks
\* leaves them for one of the finish orders
ExchangeSetup ==
  /\ call = NoCall
  /\ hand[1] = <<>>
  /\ \E s \in 0..(NumShuffles - 1) : \E cards \in {Deck_init, ApiDeck} :
       LET shuffled == Shuffle(cards, s)
           hands == Deck_deal(shuffled, Len(players)).hands
       IN  /\ deck' = shuffled
           /\ hand' = [p \in DOMAIN hand |-> sort_hand(add_cards(<<>>, hands[p]))]
  /\ \E finished \in ExchangeOrders :
       rank' = assign_ranks(finished, rank)
  /\ exchanges' = <<>>
  /\ UNCHANGED <<players, total_rounds, current_round, finished_players, score,
                 has_passed, trickVars, localVars, pc, played, call>>

\* game.handle_card_exchange()
ExchangeRun ==
  /\ call = NoCall
  /\ hand[1] # <<>>
  /\ exchanges = <<>>
  /\ hand' = handle_card_exchange(hand, rank)
  /\ exchanges' = exchanges \o exchanges_made(hand, rank)
  /\ call' = [op |-> "handle_card_exchange", interactive |-> FALSE,
              moves |-> exchange_moves(hand, rank)]
  /\ UNCHANGED <<players, total_rounds, current_round, deck, finished_players,
                 score, rank, has_passed, trickVars, localVars, pc, played>>

\* game.handle_card_exchange(interactive=True, ui_callback=...)
ExchangeRunInteractive ==
  /\ call = NoCall
  /\ hand[1] # <<>>
  /\ exchanges = <<>>
  /\ \E chosen2 \in ChosenPairs(Len(hand[1]) + 2) : \E chosen1 \in 1..(Len(hand[1]) + 1) :
       LET president == PlayerByRank(rank, "President")
           vice_president == PlayerByRank(rank, "Vice-President")
       IN  /\ president # NoPlayer => chosen2[2] <= Len(hand[president]) + 2
           /\ vice_president # NoPlayer => chosen1 <= Len(hand[vice_president]) + 1
           /\ hand' = handle_card_exchange_interactive(hand, rank, chosen2, <<chosen1>>)
  /\ exchanges' = exchanges \o exchanges_made(hand, rank)
  /\ call' = [op |-> "handle_card_exchange", interactive |-> TRUE, moves |-> <<>>]
  /\ UNCHANGED <<players, total_rounds, current_round, deck, finished_players,
                 score, rank, has_passed, trickVars, localVars, pc, played>>

ExchangeNext ==
  \/ ExchangeSetup
  \/ ExchangeRun
  \/ ExchangeRunInteractive
  \/ Return

SpecExchange == ExchangeInit /\ [][ExchangeNext]_vars

(***************************************************************************)
(* Rounds driven by Game.play_round or by main.play_round_interactive: the *)
(* interactive round deals through setup_round, runs the exchange with the *)
(* callback, and starts its first trick                                    *)
(***************************************************************************)
\* Game.handle_card_exchange(interactive=True, ui_callback): the list of
\* exchanges it returns
exchanges_made_interactive(h, rk, chosen2) ==
  LET president == PlayerByRank(rk, "President")
      vice_president == PlayerByRank(rk, "Vice-President")
      vice_scum == PlayerByRank(rk, "Vice-Scum")
      scum == PlayerByRank(rk, "Scum")
      first == IF president # NoPlayer /\ scum # NoPlayer
                  /\ Len(h[scum]) >= 2 /\ Len(h[president]) >= 2
               THEN <<[low |-> scum, high |-> president, num |-> 2]>>
               ELSE <<>>
      h1 == IF first = <<>> THEN h ELSE ExchangeUI(h, scum, president, 2, chosen2)
  IN  IF vice_president # NoPlayer /\ vice_scum # NoPlayer
         /\ Len(h1[vice_scum]) >= 1 /\ Len(h1[vice_president]) >= 1
      THEN Append(first, [low |-> vice_scum, high |-> vice_president, num |-> 1])
      ELSE first

\* play_round_interactive: the exchanges it announces
announced(rk) ==
  (IF \E p \in DOMAIN rk : rk[p] \in {"President", "Scum"}
   THEN <<"Scum">> ELSE <<>>)
  \o (IF \E p \in DOMAIN rk : rk[p] \in {"Vice-President", "Vice-Scum"}
      THEN <<"Vice-Scum">> ELSE <<>>)

\* play_round_interactive up to its while loop: current_round += 1,
\* setup_round, after the first round handle_card_exchange(interactive=True)
\* with the positions chosen at the prompt (among the first MaxChoice of the
\* hand shown), find_starting_player
InteractiveRoundBegin ==
  /\ pc = "play_game"
  /\ current_round < total_rounds
  /\ \E s \in 0..(NumShuffles - 1) :
     \E chosen2 \in ChosenPairs(MaxChoice) : \E chosen1 \in 1..MaxChoice :
       LET su == setup_round(s, current_round + 1, rank)
           president == PlayerByRank(rank, "President")
           vice_president == PlayerByRank(rank, "Vice-President")
           ui == current_round + 1 > 1 /\ announced(rank) # <<>>
           h == IF ui
                THEN handle_card_exchange_interactive(su.hand, rank,
                                                      chosen2, <<chosen1>>)
                ELSE su.hand
           first == find_starting_player(h)
       IN  /\ president # NoPlayer => chosen2[2] <= Len(su.hand[president]) + 2
           /\ vice_president # NoPlayer =>
                chosen1 <= Len(su.hand[vice_president]) + 1
           /\ current_round' = current_round + 1
           /\ deck' = su.deck
           /\ hand' = h
           /\ exchanges' =
                IF ui
                THEN su.exchanges \o exchanges_made_interactive(su.hand, rank, chosen2)
                ELSE su.exchanges
           /\ current_player' = first
           /\ pc' = IF first = NoPlayer THEN "RuntimeError"
                    ELSE "play_round_interactive"
  /\ has_passed' = [p \in DOMAIN has_passed |-> FALSE]
  /\ finished_players' = <<>>
  /\ played' = <<>>
  /\ UNCHANGED <<players, total_rounds, score, rank, trickVars,
                 starting_player, player_order, iterations, idx, call>>

\* play_round_interactive's while loop runs play_trick_interactive, whose
\* Trick(active, is_first_trick=...) raises TypeError: Trick.__init__ takes
\* the players only
InteractiveTrickBegin ==
  /\ pc = "play_round_interactive"
  /\ Len(get_active_players(hand)) > 1
  /\ pc' = "TypeError"
  /\ UNCHANGED <<gameVars, hand, has_passed, trickVars, localVars, played, call>>

InteractiveNext ==
  \/ PlayRoundBegin
  \/ PlayTrickBegin
  \/ PlayTrickSweep
  \/ PlayTrickSweepEnd
  \/ PlayTrickSkip
  \/ PlayTrickTurn
  \/ PlayTrickReturn
  \/ PlayRoundEnd
  \/ PlayGameReturn
  \/ InteractiveRoundBegin
  \/ InteractiveTrickBegin

SpecInteractive == Init /\ [][InteractiveNext]_vars

(***************************************************************************)
(* Construction and dealing: Game(player_names, total_rounds) for any      *)
(* number of names and rounds, valid or not, Deck.shuffle and Deck.deal(n) *)
(* for any n on any deck order the shuffles produce                        *)
(***************************************************************************)
\* the numbers of names and of hands asked for: below, within and above
\* MIN_PLAYERS..MAX_PLAYERS
Counts == 0..(MAX_PLAYERS + 1)

\* the numbers of rounds asked for: negative, zero, and 1..MaxRounds
RoundCounts == (0 - 1)..MaxRounds

\* Game.__init__ accepting any number of names and of rounds
Game_new_unchecked(n, r) == FALSE

\* Game.__init__: whether it raises ValueError for n names and r rounds
Game_new_raises(n, r) ==
  \/ ~(MIN_PLAYERS <= n /\ n <= MAX_PLAYERS)
  \/ r < 1

SetupInit == ApiInit(MIN_PLAYERS)

\* Game(player_names, total_rounds) with n names and r rounds: raises, or
\* leaves a new game
SetupGame ==
  /\ call = NoCall
  /\ \E n \in Counts : \E r \in RoundCounts :
       IF Game_new_raises(n, r)
       THEN /\ call' = [op |-> "Game", n |-> n, r |-> r, raised |-> TRUE]
            /\ UNCHANGED <<gameVars, hand, has_passed>>
       ELSE /\ call' = [op |-> "Game", n |-> n, r |-> r, raised |-> FALSE]
            /\ players' = [i \in 1..n |-> i]
            /\ total_rounds' = r
            /\ current_round' = 0
            /\ deck' = Deck_init
            /\ finished_players' = <<>>
            /\ hand' = [p \in 1..n |-> <<>>]
            /\ score' = [p \in 1..n |-> 0]
            /\ rank' = [p \in 1..n |-> "None"]
            /\ has_passed' = [p \in 1..n |-> FALSE]
            /\ exchanges' = exchanges
  /\ UNCHANGED <<trickVars, localVars, pc, played>>

\* game.deck.shuffle()
SetupShuffle ==
  /\ call = NoCall
  /\ \E s \in 0..(NumShuffles - 1) : deck' = Shuffle(deck, s)
  /\ UNCHANGED <<players, total_rounds, current_round, finished_players, score,
                 rank, exchanges, hand, has_passed, trickVars, localVars, pc,
                 played, call>>

\* game.deck.deal(num_players)
SetupDeal ==
  /\ call = NoCall
  /\ \E num_players \in Counts :
       LET dealt == Deck_deal(deck, num_players)
       IN  call' = [op |-> "deal", num_players |-> num_players,
                    raised |-> dealt.raised, result |-> dealt.hands]
  /\ UNCHANGED <<gameVars, hand, has_passed, trickVars, localVars, pc, played>>

SetupNext ==
  \/ SetupGame
  \/ SetupShuffle
  \/ SetupDeal
  \/ Return

SpecSetup == SetupInit /\ [][SetupNext]_vars

(***************************************************************************)
(* The hand operations of Player (sort_hand, choose_cards_to_give,         *)
(* remove_cards) applied, one after the other, to any duplicate-free hand  *)
(* of at most MaxHeld cards of the small deck, in any order                *)
(***************************************************************************)
\* the hands held: lists of at most MaxHeld distinct cards
HeldHands ==
  {h \in CardLists(MaxHeld) : \A i, j \in 1..Len(h) : i # j => h[i] # h[j]}

\* the lists remove_cards is asked to remove: at most MaxRemove cards, each a
\* card of the hand or the 3 of Clubs, repetitions included
RemoveLists(h) ==
  UNION {[1..k -> {h[i] : i \in 1..Len(h)} \cup {Card("CLUBS", THREE)}] :
           k \in 0..MaxRemove}

\* a player constructed and given a hand with add_cards
HandInit ==
  /\ players = <<1, 2, 3>>
  /\ total_rounds = 1
  /\ current_round = 0
  /\ deck = Deck_init
  /\ finished_players = <<>>
  /\ \E h \in HeldHands : hand = [p \in 1..3 |-> IF p = 1 THEN h ELSE <<>>]
  /\ score = [p \in 1..3 |-> 0]
  /\ rank = [p \in 1..3 |-> "None"]
  /\ has_passed = [p \in 1..3 |-> FALSE]
  /\ Idle
  /\ pc = "api"

\* player.sort_hand()
HandSort ==
  /\ call = NoCall
  /\ hand' = [hand EXCEPT ![1] = sort_hand(hand[1])]
  /\ call' = [op |-> "sort_hand", before |-> hand[1]]
  /\ UNCHANGED <<gameVars, has_passed, trickVars, localVars, pc, played>>

\* player.choose_cards_to_give(num)
HandChoose ==
  /\ call = NoCall
  /\ \E num \in 0..(MaxHeld + 1) :
       LET given == choose_cards_to_give(hand[1], num)
       IN  /\ hand' = [hand EXCEPT ![1] = given.hand]
           /\ call' = [op |-> "choose_cards_to_give", before |-> hand[1],
                       num |-> num, raised |-> given.raised,
                       result |-> given.cards]
  /\ UNCHANGED <<gameVars, has_passed, trickVars, localVars, pc, played>>

\* player.remove_cards(cards)
HandRemove ==
  /\ call = NoCall
  /\ \E cards \in RemoveLists(hand[1]) :
       LET removed == remove_cards(hand[1], cards)
       IN  /\ hand' = [hand EXCEPT ![1] = removed.hand]
           /\ call' = [op |-> "remove_cards", before |-> hand[1],
                       cards |-> cards, raised |-> removed.raised]
  /\ UNCHANGED <<gameVars, has_passed, trickVars, localVars, pc, played>>

HandNext ==
  \/ HandSort
  \/ HandChoose
  \/ HandRemove
  \/ Return

SpecHand == HandInit /\ [][HandNext]_vars

(***************************************************************************)
(* Game.play_game over games of 1 .. MaxRounds + 1 rounds, whoever         *)
(* finishes first: a round is taken by what play_round leaves of it, the   *)
(* round counter, a finish order of the whole roster (any one), the ranks  *)
(* and the scores; the cards of the round are left out                     *)
(***************************************************************************)
\* the finish orders of the whole roster
FullOrders ==
  {f \in FinishOrders(Len(players)) : Len(f) = Len(players)}

GameInit ==
  /\ \E n \in MIN_PLAYERS..MaxPlayers : \E r \in 1..(MaxRounds + 1) : Game_init(n, r)
  /\ Idle
  /\ pc = "play_game"

\* play_game's loop runs play_round: current_round += 1, the round is played
\* to some finish order, assign_ranks, calculate_scores
GameRound ==
  /\ pc = "play_game"
  /\ current_round < total_rounds
  /\ current_round' = current_round + 1
  /\ \E finished \in FullOrders :
       /\ finished_players' = finished
       /\ rank' = assign_ranks(finished, rank)
       /\ score' = calculate_scores(finished, score, current_round' = total_rounds)
  /\ UNCHANGED <<players, total_rounds, deck, exchanges, hand, has_passed,
                 trickVars, localVars, pc, played, call>>

GameNext ==
  \/ GameRound
  \/ PlayGameReturn

SpecGame == GameInit /\ [][GameNext]_vars

(***************************************************************************)
(* Properties                                                              *)
(***************************************************************************)
\* the 52 (suit, rank) cards
DeckCards ==
  {Card(su, r) : su \in {"CLUBS", "DIAMONDS", "HEARTS", "SPADES"}, r \in 0..12}

ThreeOfSpades == Card("SPADES", THREE)

\* how often card c occurs in list
Occurrences(c, list) == Cardinality({i \in 1..Len(list) : list[i] = c})

\* how often card c occurs in the hands of all players
InHands(c) ==
  Cardinality(UNION {{<<p, i>> : i \in {j \in 1..Len(hand[p]) : hand[p][j] = c}} :
                       p \in DOMAIN hand})

\* the cards of a list, as a set
CardSet(list) == {list[i] : i \in 1..Len(list)}

\* the participants of the trick, as a set
Participants == {active_players[i] : i \in 1..Len(active_players)}

\* C1: from the moment setup_round has dealt (and exchanged) and after every
\* play or pass of the round, each of the 52 cards is exactly once in the
\* players' hands and the cards played so far in the round, taken together.
C1_CardsConserved ==
  current_round > 0 =>
    \A c \in DeckCards : InHands(c) + Occurrences(c, played) = 1

\* C1 witness: in a second round, after the exchange (ranks are assigned),
\* cards have been played and a trick is under way
C1_Witness ==
  /\ current_round = 2
  /\ pc = "for"
  /\ Len(played) >= 4
  /\ \E p \in DOMAIN rank : rank[p] = "President"

\* beats as the specification words it, on the card lists of the two plays
SpecBeats(p_cards, q_cards) ==
  IF Len(p_cards) # Len(q_cards) THEN FALSE
  ELSE IF p_cards = <<ThreeOfSpades>> THEN TRUE
  ELSE IF q_cards = <<ThreeOfSpades>> THEN FALSE
  ELSE get_value(p_cards[1]) > get_value(q_cards[1])

\* C2: p.beats(q) is false if the card counts differ; otherwise true if p is
\* a single 3 of Spades; otherwise false if q is a single 3 of Spades;
\* otherwise true iff p's rank value is strictly greater than q's. A
\* multi-card play containing the 3 of Spades gets no extra power.
C2_Beats ==
  call.op = "beats" =>
    call.result = SpecBeats(call.self.cards, call.other.cards)

\* C2 witness: a pair of threes led by the 3 of Spades does not beat a pair
\* of fours
C2_Witness ==
  /\ call.op = "beats"
  /\ call.self.num_cards = 2 /\ call.self.cards[1] = ThreeOfSpades
  /\ call.other.num_cards = 2 /\ call.other.rank > THREE
  /\ ~call.result

C4_GetWinner ==
  /\ ~is_complete => get_winner_of_trick = NoPlayer
  /\ is_complete => /\ plays # <<>>
                    /\ get_winner_of_trick = plays[Len(plays)].player

\* C4 witness: a complete trick whose last play is not the leader's
C4_Witness ==
  /\ is_complete
  /\ Len(plays) = 2
  /\ plays[1].player # plays[2].player
  /\ get_winner_of_trick = plays[2].player

\* can_play as the specification words it
SpecCanPlay(player, cards) ==
  /\ ~has_passed[player]
  /\ player \in Participants
  /\ cards # <<>>
  /\ Cardinality({cards[i].rank : i \in 1..Len(cards)}) = 1
  /\ CardSet(cards) \subseteq CardSet(hand[player])
  /\ \/ current_play = NoPlay
     \/ beats(Play(cards, player), current_play)

\* C5: can_play(player, cards) is true exactly when the player has not
\* passed, takes part in the trick, cards is non-empty and of one rank, every
\* card is in the player's hand, and there is no current play or Play(cards)
\* beats it; the call changes no state.
C5_CanPlayResult ==
  call.op = "can_play" => call.result = SpecCanPlay(call.player, call.cards)

C5_CanPlayFrame ==
  call'.op = "can_play" =>
    UNCHANGED <<gameVars, hand, has_passed, trickVars, localVars, pc, played>>

C5_CanPlay == []C5_CanPlayResult /\ [][C5_CanPlayFrame]_vars

\* C5 witness: a pair accepted on top of the current play
C5_Witness ==
  /\ call.op = "can_play"
  /\ call.result
  /\ Len(call.cards) = 2
  /\ current_play # NoPlay

\* C6: add_play(play) raises when a current play exists that play does not
\* beat, and then leaves the log and the current play unchanged; otherwise it
\* appends play to the log and makes it the current play.
C6_AddPlayStep ==
  call'.op = "add_play" =>
    LET play == call'.play
    IN  IF current_play # NoPlay /\ ~beats(play, current_play)
        THEN call'.raised /\ plays' = plays /\ current_play' = current_play
        ELSE ~call'.raised /\ plays' = Append(plays, play) /\ current_play' = play

\* C6 (consequence): current_play is None iff the log is empty, and otherwise
\* is the last entry of the log.
C6_CurrentIsLast ==
  /\ current_play = NoPlay <=> plays = <<>>
  /\ plays # <<>> => current_play = plays[Len(plays)]

C6_AddPlay == []C6_CurrentIsLast /\ [][C6_AddPlayStep]_vars

\* C6 witness: add_play raised and the log still holds its one play
C6_Witness ==
  /\ call.op = "add_play"
  /\ call.raised
  /\ Len(plays) = 1
  /\ current_play = plays[1]

\* a step inside one trick of play_trick
C7_InTrick == pc \in {"while", "for"} /\ pc' \in {"while", "for"}

\* C7 (a): when play_trick has constructed the trick no participant has passed
C7_StartsUnpassed ==
  (pc = "while" /\ iterations = 0) => \A p \in Participants : ~has_passed[p]

\* C7 (b), (c): inside a trick has_passed never turns from true to false, and
\* a play added to the log is made by a player who had not passed
C7_Step ==
  C7_InTrick =>
    /\ \A p \in DOMAIN has_passed : has_passed[p] => has_passed'[p]
    /\ plays' # plays => ~has_passed[plays'[Len(plays')].player]

\* C7: during a trick run by play_trick every participant starts with
\* has_passed false, a flag once true stays true for the rest of the trick,
\* and a player who has passed makes no further play in it.
C7_HasPassed == []C7_StartsUnpassed /\ [][C7_Step]_vars

\* C7 witness: a later trick of a round in which a player has passed and
\* another player has since played
C7_Witness ==
  /\ pc = "for"
  /\ Len(played) > Len(plays)
  /\ Len(plays) >= 2
  /\ \E p \in Participants : has_passed[p]

\* the number of cards of rank r in list
CountRank(list, r) == Cardinality({i \in 1..Len(list) : list[i].rank = r})

\* entry is a list of n distinct cards of the hand h, all of rank r
IsPlayOf(entry, h, r, n) ==
  /\ Len(entry) = n
  /\ \A i \in 1..Len(entry) : entry[i].rank = r /\ entry[i] \in CardSet(h)
  /\ \A i, j \in 1..Len(entry) : i # j => entry[i] # entry[j]

\* the entries of result that are plays of n cards of rank r of the hand h
EntriesOf(result, h, r, n) ==
  {i \in 1..Len(result) : IsPlayOf(result[i], h, r, n)}

\* C8: leading (current_play is None), get_valid_plays returns for each rank
\* r of which the hand holds k cards exactly one play of each size 1..k made
\* of rank-r cards of the hand, and nothing else; an empty hand yields an
\* empty list.
C8_LeadPlays ==
  (call.op = "get_valid_plays" /\ call.current_play = NoPlay) =>
    LET h == hand[1]
        result == call.result
    IN  /\ \A r \in 0..12 : \A n \in 1..4 :
             Cardinality(EntriesOf(result, h, r, n)) =
               IF n <= CountRank(h, r) THEN 1 ELSE 0
        /\ \A i \in 1..Len(result) :
             \E r \in 0..12 : \E n \in 1..4 : i \in EntriesOf(result, h, r, n)
        /\ h = <<>> => result = <<>>

\* C8 witness: a hand with three cards of one rank and a card of another
C8_Witness ==
  /\ call.op = "get_valid_plays" /\ call.current_play = NoPlay
  /\ \E r \in 0..12 : CountRank(hand[1], r) = 3
  /\ Len(call.result) = 4

\* C9: against a current play of n cards, with n >= 2, or n = 1 and neither
\* the current play nor any card of the hand the 3 of Spades, get_valid_plays
\* returns exactly one play for each rank of the hand strictly above the
\* current play's of which the hand holds at least n cards, made of exactly n
\* cards of that rank of the hand, and nothing else.
C9_BeatingPlays ==
  (/\ call.op = "get_valid_plays"
   /\ call.current_play # NoPlay
   /\ \/ call.current_play.num_cards >= 2
      \/ /\ call.current_play.num_cards = 1
         /\ call.current_play.cards[1] # ThreeOfSpades
         /\ ThreeOfSpades \notin CardSet(hand[1])) =>
    LET h == hand[1]
        result == call.result
        n == call.current_play.num_cards
    IN  /\ \A r \in 0..12 :
             Cardinality(EntriesOf(result, h, r, n)) =
               IF r > call.current_play.rank /\ CountRank(h, r) >= n THEN 1 ELSE 0
        /\ \A i \in 1..Len(result) :
             \E r \in 0..12 : i \in EntriesOf(result, h, r, n)

\* C9 witness: two pairs of the hand beat the current pair
C9_Witness ==
  /\ call.op = "get_valid_plays"
  /\ call.current_play.num_cards = 2
  /\ Len(call.result) = 2
  /\ call.result[1][1].rank # call.result[2][1].rank

\* C10: against a single-card current play: if it is the 3 of Spades the
\* result is empty; otherwise, if the hand holds the 3 of Spades, the result
\* is the one play [3 of Spades], whatever else the hand holds.
C10_ThreeOfSpades ==
  (/\ call.op = "get_valid_plays"
   /\ call.current_play.num_cards = 1) =>
    IF call.current_play.cards[1] = ThreeOfSpades
    THEN call.result = <<>>
    ELSE ThreeOfSpades \in CardSet(hand[1]) =>
           call.result = <<<<ThreeOfSpades>>>>

\* C10 witness: the current play is a single 2, the hand holds the 3 of
\* Spades and other cards
C10_Witness ==
  /\ call.op = "get_valid_plays"
  /\ call.current_play.num_cards = 1
  /\ call.current_play.rank = TWO
  /\ Len(hand[1]) >= 2
  /\ call.result = <<<<ThreeOfSpades>>>>

\* the cards of the set S as a list
RECURSIVE SeqOfSet(_)
SeqOfSet(S) ==
  IF S = {} THEN <<>>
  ELSE LET c == CHOOSE x \in S : TRUE IN <<c>> \o SeqOfSet(S \ {c})

\* the non-empty same-rank sets of cards of the hand h, each as a list
SameRankSets(h) ==
  UNION {{SeqOfSet(S) : S \in SUBSET {c \in CardSet(h) : c.rank = r} \ {{}}} :
           r \in 0..12}

\* some non-empty same-rank set of cards of player's hand is accepted by
\* Trick.can_play
HasLegalPlay(player) ==
  \E cards \in SameRankSets(hand[player]) : can_play(player, cards)

C12_AssignRanks ==
  call.op = "assign_ranks" =>
    LET f == finished_players
        n == Len(f)
        named == IF Len(players) >= 4 THEN {f[1], f[2], f[n - 1], f[n]}
                 ELSE {f[1], f[n]}
    IN  IF n >= 2
        THEN /\ rank[f[1]] = "President"
             /\ rank[f[n]] = "Scum"
             /\ Len(players) >= 4 => /\ rank[f[2]] = "Vice-President"
                                     /\ rank[f[n - 1]] = "Vice-Scum"
             /\ \A p \in DOMAIN rank : p \notin named => rank[p] = "Neutral"
        ELSE rank = call.rank_before

\* the roster players holding rank label r
Holders(r) == {p \in DOMAIN rank : rank[p] = r}

\* the number of rounds play_round has completed
RoundsCompleted ==
  IF pc \in {"play_game", "done"} THEN current_round ELSE current_round - 1

\* C13: after every round completed by play_round exactly one player is
\* President and exactly one is Scum; with a roster of >= 4 exactly one is
\* Vice-President and exactly one Vice-Scum (four distinct players); with a
\* roster of 3 nobody is Vice-President or Vice-Scum; all remaining players
\* are Neutral and no rank is unset.
C13_RanksPartition ==
  RoundsCompleted >= 1 =>
    /\ Cardinality(Holders("President")) = 1
    /\ Cardinality(Holders("Scum")) = 1
    /\ Len(players) >= 4 => /\ Cardinality(Holders("Vice-President")) = 1
                            /\ Cardinality(Holders("Vice-Scum")) = 1
    /\ Len(players) = 3 => /\ Holders("Vice-President") = {}
                           /\ Holders("Vice-Scum") = {}
    /\ \A p \in DOMAIN rank :
         rank[p] \in {"President", "Vice-President", "Neutral", "Vice-Scum", "Scum"}
    /\ Cardinality(Holders("Neutral")) =
         IF Len(players) >= 4 THEN Len(players) - 4 ELSE Len(players) - 2

\* C13 witness: the second round of a four-player game has just completed
C13_Witness ==
  /\ pc = "play_game"
  /\ current_round = 2
  /\ Len(players) = 4
  /\ Holders("Vice-Scum") # {}

\* a step of a round in progress other than play_round's epilogue
C14_InRound == current_round' = current_round /\ pc' # "play_game"

\* the players whose hand becomes empty in the step
C14_Emptied == {p \in DOMAIN hand : hand[p] # <<>> /\ hand'[p] = <<>>}

\* C14 (order): a player is appended to finished_players in the step that
\* empties the player's hand, and in no other step of the round's tricks
C14_Step ==
  C14_InRound =>
    IF C14_Emptied = {} THEN finished_players' = finished_players
    ELSE \E p \in C14_Emptied :
           /\ C14_Emptied = {p}
           /\ finished_players' = Append(finished_players, p)

\* C14 (epilogue): play_round appends the one player still holding cards
C14_Epilogue ==
  (pc = "play_round" /\ pc' = "play_game") =>
    LET holding == {p \in DOMAIN hand : hand[p] # <<>>}
    IN  IF holding = {} THEN finished_players' = finished_players
        ELSE \E p \in holding :
               /\ holding = {p}
               /\ finished_players' = Append(finished_players, p)

\* C14 (result): when play_round has ended finished_players lists every
\* roster player exactly once
C14_Complete ==
  (pc = "play_game" /\ current_round > 0) =>
    /\ Len(finished_players) = Len(players)
    /\ \A p \in DOMAIN hand : Occurrences(p, finished_players) = 1

\* C14: when play_round ends finished_players contains every roster player
\* exactly once, in the order in which their hands became empty, with the one
\* player still holding cards (if any) appended last.
C14_FinishOrder ==
  []C14_Complete /\ [][C14_Step]_vars /\ [][C14_Epilogue]_vars

\* C14 witness: a four-player round has ended and the last of
\* finished_players still holds cards
C14_Witness ==
  /\ pc = "play_game"
  /\ current_round > 0
  /\ Len(players) = 4
  /\ Len(finished_players) = 4
  /\ hand[finished_players[4]] # <<>>
  /\ \A i \in 1..3 : hand[finished_players[i]] = <<>>

\* C15 (a): calculate_scores adds 1 point (non-final round) or
\* max(2, total_rounds - 2) points (final round) to the first finisher's
\* score and changes no other score
C15_Step ==
  (call'.op = "calculate_scores" /\ finished_players' # <<>>) =>
    LET president == finished_players'[1]
        points == IF call'.is_final_round
                  THEN (IF total_rounds - 2 > 2 THEN total_rounds - 2 ELSE 2)
                  ELSE 1
    IN  /\ score'[president] = score[president] + points
        /\ \A p \in DOMAIN score : p # president => score'[p] = score[p]

\* C15 (b): no score is negative
C15_NonNegative == \A p \in DOMAIN score : score[p] >= 0

\* C15 (c): no score decreases
C15_Monotonic == \A p \in DOMAIN score : score'[p] >= score[p]

\* C15: calculate_scores(is_final_round) adds 1 point (non-final) or
\* max(2, total_rounds - 2) points (final) to the score of the first finisher
\* and changes no other player's score; every score is non-negative and never
\* decreases.
C15_Scores ==
  []C15_NonNegative /\ [][C15_Step]_vars /\ [][C15_Monotonic]_vars

\* C15 witness: a final round of a five-round game has been scored for a
\* player who had points; another player has points too
C15_Witness ==
  /\ call.op = "calculate_scores"
  /\ call.is_final_round
  /\ total_rounds = 5
  /\ finished_players # <<>>
  /\ score[finished_players[1]] >= 4
  /\ \E p \in DOMAIN score : p # finished_players[1] /\ score[p] > 0

\* the players whose score is strictly greater than every other player's
StrictlyHighest ==
  {p \in DOMAIN score : \A q \in DOMAIN score : q # p => score[p] > score[q]}

\* C16 (result): get_winner() is the player whose score is strictly greater
\* than every other player's, None when two or more share the maximum
C16_Result ==
  call.op = "get_winner" =>
    IF StrictlyHighest = {} THEN call.result = NoPlayer
    ELSE call.result \in StrictlyHighest

\* C16 (frame): get_winner() changes no state
C16_Frame ==
  call'.op = "get_winner" =>
    UNCHANGED <<gameVars, hand, has_passed, trickVars, localVars, pc, played>>

\* C16: Game.get_winner() returns the player whose score is strictly greater
\* than every other player's and None whenever two or more players share the
\* maximum score; it changes no state.
C16_GetWinner == []C16_Result /\ [][C16_Frame]_vars

\* C16 witness: two players share a positive maximum and get_winner is None
C16_Witness ==
  /\ call.op = "get_winner"
  /\ call.result = NoPlayer
  /\ \E p, q \in DOMAIN score :
       /\ p # q /\ score[p] = score[q] /\ score[p] >= 2
       /\ \A o \in DOMAIN score : score[o] <= score[p]

ThreeOfClubs == Card("CLUBS", THREE)

\* the players whose hand, in the state after the step, holds the 3 of Clubs
C17_HoldersAfter == {p \in DOMAIN hand : ThreeOfClubs \in CardSet(hand'[p])}

\* C17 (step): the step that runs setup_round and find_starting_player leaves
\* exactly one holder of the 3 of Clubs and returns that player
C17_Step ==
  current_round' = current_round + 1 =>
    /\ Cardinality(C17_HoldersAfter) = 1
    /\ current_player' \in C17_HoldersAfter
    /\ pc' = "play_round"

TotalCards(h) == SumSeq([p \in 1..Len(players) |-> Len(h[p])])

\* C18: handle_card_exchange leaves the hand size of every player unchanged
\* (who gives 2 receives 2, who gives 1 receives 1) and leaves the total
\* number of cards across all players unchanged.
C18_Step ==
  call'.op = "handle_card_exchange" =>
    /\ \A p \in DOMAIN hand : Len(hand'[p]) = Len(hand[p])
    /\ TotalCards(hand') = TotalCards(hand)

C18_ExchangeSizes == [][C18_Step]_vars

\* C18 witness: both exchanges were carried out on a deal of the 52 cards to
\* four players, and the President's hand changed
C18_Witness ==
  /\ call.op = "handle_card_exchange"
  /\ Len(exchanges) = 2
  /\ TotalCards(hand) = 52
  /\ \E p \in DOMAIN hand :
       /\ rank[p] = "President"
       /\ hand[p] # sort_hand(Deck_deal(deck, Len(players)).hands[p])

\* the strength of card c in hand h as sort_hand orders it: the value, but a
\* 3 of Spades that is the only three of the hand is the strongest card
Strength(c, h) ==
  IF is_three_of_spades(c) /\ CountRank(h, THREE) = 1 THEN 13 ELSE get_value(c)

\* the cards of a move went from hand to hand: the giver's strongest num
\* cards, num cards of the receiver's hand as it stood after receiving
MoveTransfers(m) ==
  /\ Len(m.from_low) = m.num /\ Len(m.from_high) = m.num
  /\ CardSet(m.from_low) \subseteq CardSet(m.low_hand)
  /\ CardSet(m.from_low) \subseteq CardSet(m.high_received)
  /\ CardSet(hand[m.high]) = CardSet(m.high_received) \ CardSet(m.from_high)
  /\ CardSet(hand[m.low]) =
       (CardSet(m.low_hand) \ CardSet(m.from_low)) \cup CardSet(m.from_high)
  /\ \A g \in CardSet(m.from_low) :
       \A k \in CardSet(m.low_hand) \ CardSet(m.from_low) :
         Strength(g, m.low_hand) >= Strength(k, m.low_hand)

\* the moves of the automatic exchange just carried out
AutoMoves ==
  IF call.op = "handle_card_exchange" /\ ~call.interactive
  THEN {call.moves[i] : i \in 1..Len(call.moves)}
  ELSE {}

\* C19 as stated: in the automatic exchange the Scum gives the President its
\* 2 strongest cards and the President gives the Scum the 2 weakest cards by
\* value of its hand as it stands after receiving: no card the President
\* keeps has a lower get_value than a card the President gives away. The
\* Vice-President / Vice-Scum exchange does the same with 1 card.
C19_WeakestByValue ==
  \A m \in AutoMoves :
    /\ MoveTransfers(m)
    /\ \A g \in CardSet(m.from_high) : \A k \in CardSet(hand[m.high]) :
         get_value(k) >= get_value(g)

\* C19 amended: ... the President gives the Scum the 2 weakest cards of its
\* hand after receiving in sort_hand order: no card the President keeps has a
\* lower get_value than a card given away, except a 3 of Spades that is the
\* only three of that hand, which counts as its strongest card and is kept.
C19_WeakestInHandOrder ==
  \A m \in AutoMoves :
    /\ MoveTransfers(m)
    /\ \A g \in CardSet(m.from_high) : \A k \in CardSet(hand[m.high]) :
         Strength(k, m.high_received) >= Strength(g, m.high_received)

\* C19 witness: the President keeps the 3 of Spades, its only three, and
\* gives away a card of higher value
C19_Witness ==
  \E m \in AutoMoves :
    /\ m.num = 2
    /\ ThreeOfSpades \in CardSet(hand[m.high])
    /\ CountRank(m.high_received, THREE) = 1
    /\ \E g \in CardSet(m.from_high) : get_value(g) > get_value(ThreeOfSpades)

\* how many exchanges of num cards were carried out since the last deal
ExchangeCount(num) ==
  Cardinality({i \in 1..Len(exchanges) : exchanges[i].num = num})

\* C20: in every round after the first, each exchange (President / Scum with
\* 2 cards, on a roster of four or more Vice-President / Vice-Scum with 1
\* card) is carried out exactly once between dealing and the first trick,
\* whether the round is driven by play_round or by play_round_interactive
C20_ExchangedOnce ==
  (current_round > 1 /\ pc \in {"play_round", "play_round_interactive"}
     /\ played = <<>>)
    => /\ ExchangeCount(2) = 1
       /\ ExchangeCount(1) = IF Len(players) >= 4 THEN 1 ELSE 0

\* how often card c occurs in the hands of the list hands
InDealt(c, hands) ==
  SumSeq([p \in 1..Len(hands) |-> Occurrences(c, hands[p])])

\* C21: for every n in 3..8 and every deck order, Deck.deal(n) returns n
\* hands in which the card at deck position i is in hand i mod n, in deck
\* order; the hands together contain each of the 52 cards exactly once and
\* the largest and the smallest hand differ by at most one card.
C21_Deal ==
  (call.op = "deal" /\ call.num_players \in MIN_PLAYERS..MAX_PLAYERS) =>
    LET n == call.num_players
        hands == call.result
    IN  /\ ~call.raised
        /\ Len(hands) = n
        /\ \A i \in 0..(Len(deck) - 1) :
             /\ Len(hands[(i % n) + 1]) >= (i \div n) + 1
             /\ hands[(i % n) + 1][(i \div n) + 1] = deck[i + 1]
        /\ \A c \in DeckCards : InDealt(c, hands) = 1
        /\ \A p, q \in 1..n : Len(hands[p]) - Len(hands[q]) <= 1

\* C21 witness: a shuffled deck dealt to five players, whose hands differ in
\* size
C21_Witness ==
  /\ call.op = "deal" /\ ~call.raised
  /\ call.num_players = 5
  /\ deck # Deck_init
  /\ \E p, q \in 1..5 : Len(call.result[p]) # Len(call.result[q])

\* C22: for every num with 0 <= num <= hand size, choose_cards_to_give(num)
\* returns exactly num cards of the hand that are its top cards by value (no
\* card left out has a higher get_value than a returned card) and removes
\* nothing from the hand; for num greater than the hand size it raises.
C22_ChooseCards ==
  call.op = "choose_cards_to_give" =>
    IF call.num <= Len(call.before)
    THEN /\ ~call.raised
         /\ Len(call.result) = call.num
         /\ CardSet(call.result) \subseteq CardSet(call.before)
         /\ \A k \in CardSet(call.before) \ CardSet(call.result) :
              \A g \in CardSet(call.result) : get_value(k) <= get_value(g)
         /\ Len(hand[1]) = Len(call.before)
         /\ CardSet(hand[1]) = CardSet(call.before)
    ELSE call.raised

\* the only three of the hand h is the 3 of Spades
LoneThreeOfSpades(h) ==
  CountRank(h, THREE) = 1 /\ ThreeOfSpades \in CardSet(h)

\* the first n cards of h are in ascending get_value order
Ascending(h, n) ==
  \A i, j \in 1..n : i < j => get_value(h[i]) <= get_value(h[j])

\* C23: sort_hand() reorders the hand without adding or removing any card so
\* that the cards are in ascending get_value order, except that when the
\* hand's only three is the 3 of Spades that card is placed last; as a
\* consequence choose_cards_to_give treats a lone 3 of Spades as the player's
\* strongest card and includes it in the cards given.
C23_SortHand ==
  /\ call.op = "sort_hand" =>
       LET h == hand[1]
       IN  /\ Len(h) = Len(call.before)
           /\ \A c \in ApiCards : Occurrences(c, h) = Occurrences(c, call.before)
           /\ IF LoneThreeOfSpades(call.before)
              THEN h[Len(h)] = ThreeOfSpades /\ Ascending(h, Len(h) - 1)
              ELSE Ascending(h, Len(h))
  /\ (call.op = "choose_cards_to_give" /\ ~call.raised
        /\ LoneThreeOfSpades(call.before))
       => call.result[Len(call.result)] = ThreeOfSpades

\* C23 witness: a hand of three cards that began with the 3 of Spades, its
\* only three, was sorted
C23_Witness ==
  /\ call.op = "sort_hand"
  /\ Len(call.before) = 3
  /\ call.before[1] = ThreeOfSpades
  /\ LoneThreeOfSpades(call.before)
  /\ hand[1] # call.before

\* every card of the list cards is in the hand h as often as it is asked for
Available(cards, h) ==
  \A c \in CardSet(cards) : Occurrences(c, cards) <= Occurrences(c, h)

\* C24: remove_cards(cards) raises whenever some requested card is not
\* available in the hand, counting multiplicity (asking for the same card
\* twice when the hand holds it once fails), and otherwise removes exactly
\* the requested cards and leaves all other cards of the hand in place.
C24_RemoveCards ==
  call.op = "remove_cards" =>
    /\ call.raised <=> ~Available(call.cards, call.before)
    /\ ~call.raised =>
         /\ \A c \in ApiCards :
              Occurrences(c, hand[1]) =
                Occurrences(c, call.before) - Occurrences(c, call.cards)
         /\ hand[1] = SelectSeq(call.before, LAMBDA c : c \notin CardSet(call.cards))

\* C24 witness: the first and the last card of a hand of three were removed,
\* last card first, and the middle card is what is left
C24_Witness ==
  /\ call.op = "remove_cards"
  /\ ~call.raised
  /\ Len(call.before) = 3
  /\ call.cards = <<call.before[3], call.before[1]>>
  /\ hand[1] = <<call.before[2]>>

\* C25: input validation is never clamped: Game(player_names, total_rounds)
\* raises when the number of names is outside 3..8 or total_rounds < 1, and
\* Deck.deal(n) raises when n is outside 3..8; a successfully constructed
\* Game starts with current_round 0, every score 0, every hand empty, every
\* rank unset and an empty finish list.
C25_Validation ==
  /\ call.op = "Game" =>
       /\ call.raised <=> (call.n \notin MIN_PLAYERS..MAX_PLAYERS \/ call.r < 1)
       /\ ~call.raised =>
            /\ Len(players) = call.n
            /\ total_rounds = call.r
            /\ current_round = 0
            /\ finished_players = <<>>
            /\ DOMAIN score = 1..call.n /\ \A p \in 1..call.n : score[p] = 0
            /\ DOMAIN hand = 1..call.n /\ \A p \in 1..call.n : hand[p] = <<>>
            /\ DOMAIN rank = 1..call.n /\ \A p \in 1..call.n : rank[p] = "None"
  /\ call.op = "deal" =>
       (call.raised <=> call.num_players \notin MIN_PLAYERS..MAX_PLAYERS)

\* C25 witness: a game of eight players was constructed in place of a
\* smaller one
C25_Witness ==
  /\ call.op = "Game"
  /\ ~call.raised
  /\ call.n = MAX_PLAYERS
  /\ call.r = MaxRounds

\* C26 (rounds): current_round changes only by the start of a round, which
\* adds one to it, and never exceeds total_rounds
C26_Step ==
  current_round' # current_round =>
    /\ pc = "play_game"
    /\ current_round' = current_round + 1
    /\ current_round' <= total_rounds

\* C26 (return): when play_game returns, total_rounds rounds have been
\* played, and the player returned is get_winner() when that is not None,
\* otherwise the first player of the roster; it is a roster player
C26_Done ==
  pc = "done" =>
    /\ current_round = total_rounds
    /\ call.op = "play_game"
    /\ call.result \in CardSet(players)
    /\ IF get_winner(score) # NoPlayer
       THEN call.result = get_winner(score) /\ call.result \in StrictlyHighest
       ELSE call.result = players[1] /\ StrictlyHighest = {}

\* C26: play_game() plays exactly total_rounds rounds (current_round increases
\* by one per round and ends equal to total_rounds) and returns get_winner()
\* when that is not None, otherwise the first player in roster order; the
\* returned player is always a member of the roster.
C26_PlayGame == []C26_Done /\ [][C26_Step]_vars

\* C26 witness: a game of three rounds ended in a tie between two players
\* other than the first, and the first player was returned
C26_Witness ==
  /\ pc = "done"
  /\ total_rounds = 3
  /\ get_winner(score) = NoPlayer
  /\ score[players[1]] = 0
  /\ call.result = players[1]

\* C27: in every game with total_rounds = 1 or total_rounds = 2, once all
\* rounds have been played get_winner() returns a player and never None: the
\* final-round bonus makes a tie for the top score impossible, whoever
\* finishes first in each round.
C27_NoTie ==
  (total_rounds \in {1, 2} /\ current_round = total_rounds
     /\ pc \in {"play_game", "done"})
    => /\ get_winner(score) # NoPlayer
       /\ get_winner(score) \in StrictlyHighest

\* C27 witness: the two rounds of a game were finished first by different
\* players
C27_Witness ==
  /\ total_rounds = 2
  /\ current_round = 2
  /\ pc = "play_game"
  /\ \E p, q \in DOMAIN score : p # q /\ score[p] = 1 /\ score[q] = 2

\* C28: calling assign_ranks() twice in a row with the same finished_players
\* yields, after the second call, exactly the same rank for every player as
\* after the first call.
C28_Idempotent ==
  call.op = "assign_ranks_again" =>
    \A p \in DOMAIN rank : rank[p] = call.rank_before[p]

\* C28 witness: the second call followed a first call that assigned the four
\* ranks of a roster of four, other than the ranks held before it
C28_Witness ==
  /\ call.op = "assign_ranks_again"
  /\ Len(players) = 4
  /\ Len(finished_players) = 4
  /\ rank[finished_players[1]] = "President"
  /\ rank[finished_players[3]] = "Vice-Scum"
  /\ finished_players[1] # players[1]

\* C29: Game.play_trick returns the player who made the trick's last (current
\* highest) play, and play_round makes that player the leader of the next
\* trick (when that player still holds cards to lead with); the starting
\* player is never returned in place of a different player who made the
\* highest play.
C29_TrickWinner ==
  [][/\ (pc = "while" /\ pc' = "play_round") =>
          current_player' = current_play.player
     /\ (pc = "play_round" /\ pc' = "while"
           /\ ~is_hand_empty(hand[current_player])) =>
          starting_player' = current_player]_vars

\* C30: every trick run by Game.play_trick in automatic play reaches the
\* Complete state (a play exists and at most one participant has not passed)
\* before play_trick returns: the sweep loop always exits because
\* is_complete() became true, never because the 100-sweep safety cap was
\* reached, also when participants empty their hands during the trick.
C30_TrickCompletes ==
  [][(pc = "while" /\ pc' = "play_round") =>
       /\ current_play # NoPlay
       /\ Cardinality({p \in Participants : ~has_passed[p]}) <= 1
       /\ iterations < max_iterations]_vars

\* C31: every round driven by play_round terminates: in each trick the
\* leader makes the first play (no player passes and no other player plays
\* while the trick has no current play), cards never return to a hand during
\* a round and every play takes cards out of one, every trick that returns
\* has a play, so the number of cards held strictly decreases from trick to
\* trick, and the round ends (play_round returns to play_game).
C31_Step ==
  /\ (pc = "for" /\ current_play = NoPlay) =>
       /\ has_passed' = has_passed
       /\ current_play' # NoPlay
       /\ current_play'.player = starting_player
  /\ (pc \in {"play_round", "while", "for"}) =>
       TotalCards(hand') <= TotalCards(hand)
  /\ (plays' # plays /\ plays' # <<>>) =>
       TotalCards(hand') < TotalCards(hand)
  /\ (pc = "while" /\ pc' = "play_round") => plays # <<>>
  /\ (pc = "play_round" /\ pc' = "play_game") =>
       Len(get_active_players(hand)) <= 1

C31_RoundTerminates ==
  /\ [][C31_Step]_vars
  /\ (pc \in {"play_round", "while", "for"}) ~> (pc = "play_game")

\* C31 witness: a round of four players has ended after its cards were
\* played in tricks, with one player left holding cards
C31_Witness ==
  /\ pc = "play_game"
  /\ current_round >= 1
  /\ Len(players) = 4
  /\ Len(get_active_players(hand)) = 1
  /\ Len(played) >= 40

\* the roster players holding cards in hands h
CardHolders(h) == {p \in 1..Len(players) : ~is_hand_empty(h[p])}

\* order lists the holders of cards in roster order, rotated to begin at the
\* leader, or at the first holder when the leader holds no cards
RotationFrom(order, h, leader) ==
  LET holders == CardHolders(h)
      lowest == CHOOSE p \in holders : \A q \in holders : p <= q
      highest == CHOOSE p \in holders : \A q \in holders : q <= p
  IN  /\ Len(order) = Cardinality(holders)
      /\ {order[i] : i \in 1..Len(order)} = holders
      /\ order[1] = IF leader \in holders THEN leader ELSE lowest
      /\ \A i \in 1..(Len(order) - 1) :
           \/ /\ order[i] < order[i + 1]
              /\ ~(\E q \in holders : order[i] < q /\ q < order[i + 1])
           \/ order[i] = highest /\ order[i + 1] = lowest

\* the positions of a sweep are visited in order, and the player at a
\* visited position makes exactly one decision when they have not passed and
\* hold cards, and none otherwise
SweepDecisions ==
  /\ (pc = "play_round" /\ pc' = "while") =>
       RotationFrom(player_order', hand, current_player)
  /\ (pc = "while" /\ pc' = "for") => idx' = 1
  /\ (pc = "for" /\ pc' = "for" /\ idx' # idx) =>
       LET p == player_order[idx]
       IN  /\ idx' = idx + 1
           /\ IF has_passed[p] \/ is_hand_empty(hand[p])
              THEN plays' = plays /\ has_passed' = has_passed
              ELSE \/ /\ Len(plays') = Len(plays) + 1
                      /\ plays'[Len(plays')].player = p
                      /\ has_passed' = has_passed
                   \/ /\ plays' = plays
                      /\ has_passed' = [has_passed EXCEPT ![p] = TRUE]
  /\ (pc = "for" /\ idx' = idx) => (plays' = plays /\ has_passed' = has_passed)

\* the positions from idx on hold only players who passed or hold no cards
RestOfSweepIdle ==
  \A i \in idx..Len(player_order) :
    has_passed[player_order[i]] \/ is_hand_empty(hand[player_order[i]])

\* C32 as stated: the decision order of play_trick is the holders of cards at
\* trick start in roster order rotated to the leader, and within EACH sweep
\* every player who has not passed and holds cards gets exactly one decision,
\* in that order: a sweep ends only when no such player is left in it.
C32_EverySweepFull ==
  [][/\ SweepDecisions
     /\ (pc = "for" /\ pc' = "while") => RestOfSweepIdle]_vars

\* C32 amended: the same, for each sweep as far as it runs: a sweep also ends
\* as soon as the trick is complete, before the players left in it decide.
C32_SweepUntilComplete ==
  [][/\ SweepDecisions
     /\ (pc = "for" /\ pc' = "while") => (is_complete \/ RestOfSweepIdle)]_vars

\* C32 witness: in a second or later sweep of a trick of four, led by a
\* player other than the first of the roster, the third in order is about to
\* decide after one before them passed
C32_Witness ==
  /\ pc = "for"
  /\ iterations >= 2
  /\ idx = 3
  /\ Len(player_order) = 4
  /\ player_order[1] # 1
  /\ has_passed[player_order[2]]
  /\ ~has_passed[player_order[3]]
  /\ ~is_hand_empty(hand[player_order[3]])

\* C33: within one trick, two consecutive plays of the play log are never
\* made by the same player: nobody plays on top of their own current highest
\* play, also while a participant who emptied their hand earlier in the trick
\* still counts as not having passed.
C33_NoPlayOnOwnPlay ==
  \A i \in 1..(Len(plays) - 1) : plays[i].player # plays[i + 1].player

\* C34: in automatic play the first candidate of get_valid_plays for the
\* player whose turn it is is always accepted by can_play, by Play and
\* add_play, and by remove_cards: the pass of the "can't actually play"
\* branch is never taken, and no ValueError is raised during a round.
C34_FirstCandidateAccepted ==
  /\ pc # "ValueError"
  /\ PlayTrickTurnEnabled =>
       LET player == player_order[idx]
           valid_plays == get_valid_plays(hand[player], current_play)
       IN  valid_plays # <<>> =>
             /\ can_play(player, valid_plays[1])
             /\ ~Play_raises(valid_plays[1])
             /\ ~add_play(Play(valid_plays[1], player)).raised
             /\ ~remove_cards(hand[player], valid_plays[1]).raised
             /\ ~player_passes_raises(player)

\* C34 witness: a player is about to beat the current play of another player
\* with the first candidate, after a third player passed
C34_Witness ==
  /\ PlayTrickTurnEnabled
  /\ current_play # NoPlay
  /\ current_play.player # player_order[idx]
  /\ get_valid_plays(hand[player_order[idx]], current_play) # <<>>
  /\ \E p \in Participants : has_passed[p]

\* C35: in every trick all plays of the log have as many cards as the
\* leader's play, all cards of one play share a rank, and each play after
\* the first beats the play immediately before it.
C35_PlayLog ==
  \A i \in 1..Len(plays) :
    /\ plays[i].cards # <<>>
    /\ plays[i].num_cards = Len(plays[i].cards)
    /\ \A j \in 1..Len(plays[i].cards) :
         plays[i].cards[j].rank = plays[i].cards[1].rank
    /\ Len(plays[i].cards) = Len(plays[1].cards)
    /\ i > 1 => SpecBeats(plays[i].cards, plays[i - 1].cards)

\* C35 witness: the log holds a pair and the pair that beat it
C35_Witness ==
  /\ Len(plays) = 2
  /\ plays[1].num_cards = 2
  /\ plays[2].num_cards = 2

\* C36: whenever Trick.can_play(player, cards) returns true, for every list
\* of cards, including one that names the same card more than once,
\* constructing Play(cards, player), add_play and player.remove_cards(cards)
\* all succeed: a play that passed can_play can be applied in full.
C36_CanPlayApplies ==
  (call.op = "can_play" /\ call.result) =>
    /\ ~Play_raises(call.cards)
    /\ ~add_play(Play(call.cards, call.player)).raised
    /\ ~remove_cards(hand[call.player], call.cards).raised

\* C37 as stated: when remove_cards(cards) raises because a requested card is
\* missing, the hand is exactly what it was before the call.
C37_HandUntouched ==
  (call.op = "remove_cards" /\ call.raised) => hand[1] = call.before

\* C37 amended: when remove_cards(cards) raises, the requested cards that
\* precede the first unavailable one have been removed and every other card
\* is in place; the hand is what it was only when nothing precedes it.
C37_RemovedUpToMissing ==
  (call.op = "remove_cards" /\ call.raised) =>
    \E k \in 1..Len(call.cards) :
      /\ ~Available(SubSeq(call.cards, 1, k), call.before)
      /\ Available(SubSeq(call.cards, 1, k - 1), call.before)
      /\ hand[1] = SelectSeq(call.before,
                             LAMBDA c : c \notin CardSet(SubSeq(call.cards, 1, k - 1)))
      /\ (hand[1] = call.before) <=> (k = 1)

\* C37 witness: remove_cards raised on its second card after removing the
\* first from a hand of three
C37_Witness ==
  /\ call.op = "remove_cards"
  /\ call.raised
  /\ Len(call.before) = 3
  /\ Len(hand[1]) = 2

\* C38: after k rounds completed by play_round in a game of R rounds the
\* scores of all players sum to k when k < R and to (R - 1) + max(2, R - 2)
\* when k = R, and in each round exactly one player's score changes.
C38_Sum ==
  (pc \in {"play_game", "done"}) =>
    SumSeq(score) = IF current_round < total_rounds
                    THEN current_round
                    ELSE (total_rounds - 1) + Max(2, total_rounds - 2)

C38_Step ==
  /\ (pc = "play_round" /\ pc' = "play_game") =>
       Cardinality({p \in DOMAIN score : score'[p] # score[p]}) = 1
  /\ ~(pc = "play_round" /\ pc' = "play_game") => score' = score

C38_ScoreSum == []C38_Sum /\ [][C38_Step]_vars

\* C38 witness: both rounds of a game of two rounds are completed, the first
\* worth 1 point and the final one 2
C38_Witness ==
  /\ pc = "done"
  /\ total_rounds = 2
  /\ current_round = 2
  /\ SumSeq(score) = 3

\* C39: in the first round of a game no card changes hands between dealing
\* and the first trick: play_round has already made current_round 1, so
\* setup_round calls handle_card_exchange, but every rank is still unset, no
\* exchange is made, and each player's hand is the hand dealt to them (as
\* setup_round sorted it).
C39_FirstRoundNoExchange ==
  (current_round = 1 /\ pc = "play_round" /\ played = <<>>) =>
    /\ \A p \in DOMAIN rank : rank[p] = "None"
    /\ exchanges = <<>>
    /\ \A p \in DOMAIN hand :
         hand[p] = sort_hand(Deck_deal(deck, Len(players)).hands[p])

\* C39 witness: the first round of a game of four is set up and about to
\* start its first trick, the first player holding 13 cards
C39_Witness ==
  /\ current_round = 1
  /\ pc = "play_round"
  /\ played = <<>>
  /\ Len(players) = 4
  /\ Len(hand[1]) = 13

\* the players holding one of the two rank labels of an exchange pair
PairHolders(high, low) == Holders(high) \cup Holders(low)

\* C40: handle_card_exchange changes only the hands of the players ranked
\* President, Scum, Vice-President and Vice-Scum: the hands of Neutral or
\* unranked players, and every player's score, rank and has_passed flag, are
\* unchanged; and when a pair is incomplete (one of its two ranks has no
\* holder) neither hand of that pair changes.
C40_Step ==
  (call.op = "none" /\ call'.op = "handle_card_exchange") =>
    /\ score' = score /\ rank' = rank /\ has_passed' = has_passed
    /\ \A p \in DOMAIN hand :
         p \notin PairHolders("President", "Scum")
                    \cup PairHolders("Vice-President", "Vice-Scum") =>
           hand'[p] = hand[p]
    /\ (Holders("President") = {} \/ Holders("Scum") = {}) =>
         \A p \in PairHolders("President", "Scum") : hand'[p] = hand[p]
    /\ (Holders("Vice-President") = {} \/ Holders("Vice-Scum") = {}) =>
         \A p \in PairHolders("Vice-President", "Vice-Scum") : hand'[p] = hand[p]

C40_ExchangeFrame == [][C40_Step]_vars

\* C40 witness: handle_card_exchange ran on a roster of four with a
\* President, a Scum and a Vice-Scum but no Vice-President: one exchange was
\* made and the Vice-Scum's hand is as dealt
C40_Witness ==
  /\ call.op = "handle_card_exchange"
  /\ Len(exchanges) = 1
  /\ Holders("Vice-President") = {}
  /\ \E p \in Holders("Vice-Scum") :
       hand[p] = sort_hand(Deck_deal(deck, Len(players)).hands[p])
  /\ \E p \in Holders("President") :
       hand[p] # sort_hand(Deck_deal(deck, Len(players)).hands[p])

====
